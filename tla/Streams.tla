------------------------------- MODULE Streams -------------------------------
(***************************************************************************)
(* The status store and what reads it: the loop replaces the snapshot and  *)
(* then offers it to the subscribers, one after the other, dropping the    *)
(* oldest one of a full buffer; handleEvents subscribes, reads the         *)
(* snapshot and shows it, and then shows what arrives; the web UI keeps    *)
(* the last snapshot it was given, by the stream or by a refresh.          *)
(*                                                                         *)
(* The snapshots are numbered: 1 is the one NewStore makes.  Only the loop *)
(* calls Set, so that one broadcast is over before the next begins.        *)
(***************************************************************************)
EXTENDS Naturals, Sequences

CONSTANTS
    Reader,         \* browser tabs, each with one stream
    Stalled,        \* those which need not read, nor come back
    Capacity,       \* of the channel Subscribe makes
    None,
    MaxSnap,        \* bound: snapshots set
    MaxUpsets       \* bound: streams that break and presses of the refresh button

ASSUME StreamsAssumption ==
    /\ Stalled \subseteq Reader
    /\ None \notin Reader
    /\ Capacity \in Nat \ {0} /\ MaxSnap \in Nat \ {0}

VARIABLES
    snap,       \* the store's snapshot
    loop,       \* where Set is
    todo,       \* subscribers this broadcast has still to serve
    full,       \* the one whose buffer it found full
    subs,       \* the subscribers of the store
    buf,        \* their channels
    pc,         \* where each handler of a stream is
    hold,       \* the snapshot a handler is about to write, 0 for none
    seen,       \* the snapshot a tab shows, 0 before it has one
    reply,      \* the answer to a refresh, on its way
    spent       \* how much of each bound is used

setVars == <<snap, loop, todo, full>>
tabVars == <<seen, reply>>
vars == <<setVars, subs, buf, pc, hold, tabVars, spent>>

Spend(what) ==
    spent.hangup + spent.refresh < MaxUpsets /\ spent' = [spent EXCEPT ![what] = @ + 1]

Init ==
    /\ snap = 1 /\ loop = "idle" /\ todo = {} /\ full = None
    /\ subs = {} /\ buf = [r \in Reader |-> <<>>]
    /\ pc = [r \in Reader |-> "off"] /\ hold = [r \in Reader |-> 0]
    /\ seen = [r \in Reader |-> 0] /\ reply = [r \in Reader |-> None]
    /\ spent = [hangup |-> 0, refresh |-> 0]

-----------------------------------------------------------------------------
(* Set: the snapshot under its own lock, then the broadcast under that of  *)
(* the subscribers.                                                        *)

\* subsMu is held by the broadcast; whoever else takes it is done at once.
Locked == loop \in {"send", "drop", "resend"}

Store ==
    /\ loop = "idle" /\ snap < MaxSnap
    /\ snap' = snap + 1 /\ loop' = "stored"
    /\ UNCHANGED <<todo, full, subs, buf, pc, hold, tabVars, spent>>

Begin ==
    /\ loop = "stored"
    /\ todo' = subs /\ loop' = "send"
    /\ UNCHANGED <<snap, full, subs, buf, pc, hold, tabVars, spent>>

Room(r) == Len(buf[r]) < Capacity
Push(r) == [buf EXCEPT ![r] = Append(@, snap)]

\* Mutant: the send waits until the subscriber has read.
SendBlocking(r) ==
    /\ loop = "send" /\ r \in todo /\ Room(r)
    /\ buf' = Push(r) /\ todo' = todo \ {r}
    /\ UNCHANGED <<snap, loop, full, subs, pc, hold, tabVars, spent>>

Send(r) ==
    /\ loop = "send" /\ r \in todo
    /\ \/ Room(r) /\ buf' = Push(r) /\ todo' = todo \ {r} /\ UNCHANGED <<loop, full>>
       \/ ~Room(r) /\ full' = r /\ loop' = "drop" /\ UNCHANGED <<buf, todo>>
    /\ UNCHANGED <<snap, subs, pc, hold, tabVars, spent>>

\* Mutant: the newest of the buffered snapshots makes room.
MakeRoomAtTheEnd ==
    /\ loop = "drop"
    /\ buf' = [buf EXCEPT ![full] = IF @ = <<>> THEN @ ELSE SubSeq(@, 1, Len(@) - 1)]
    /\ loop' = "resend"
    /\ UNCHANGED <<snap, todo, full, subs, pc, hold, tabVars, spent>>

\* The handler may have read in the meantime: then one more is gone than need be.
MakeRoom ==
    /\ loop = "drop"
    /\ buf' = [buf EXCEPT ![full] = IF @ = <<>> THEN @ ELSE Tail(@)]
    /\ loop' = "resend"
    /\ UNCHANGED <<snap, todo, full, subs, pc, hold, tabVars, spent>>

\* Mutant: having made room, the broadcast goes on to the next subscriber.
ResendForgotten ==
    /\ loop = "resend"
    /\ todo' = todo \ {full} /\ full' = None /\ loop' = "send"
    /\ UNCHANGED <<snap, subs, buf, pc, hold, tabVars, spent>>

Resend ==
    /\ loop = "resend"
    /\ buf' = IF Room(full) THEN Push(full) ELSE buf
    /\ todo' = todo \ {full} /\ full' = None /\ loop' = "send"
    /\ UNCHANGED <<snap, subs, pc, hold, tabVars, spent>>

Done ==
    /\ loop = "send" /\ todo = {}
    /\ loop' = "idle"
    /\ UNCHANGED <<snap, todo, full, subs, buf, pc, hold, tabVars, spent>>

Broadcast == Begin \/ (\E r \in Reader : Send(r)) \/ MakeRoom \/ Resend \/ Done

-----------------------------------------------------------------------------
(* handleEvents. *)

Goto(r, from, to) == pc[r] = from /\ pc' = [pc EXCEPT ![r] = to]

\* A tab connects, or connects again.
Subscribe(r) ==
    /\ Goto(r, "off", "subscribed") /\ ~Locked
    /\ subs' = subs \cup {r} /\ buf' = [buf EXCEPT ![r] = <<>>]
    /\ UNCHANGED <<setVars, hold, tabVars, spent>>

\* Mutant: the stream begins with the next pass.
PaintNothing(r) ==
    /\ Goto(r, "subscribed", "loop")
    /\ UNCHANGED <<setVars, subs, buf, hold, tabVars, spent>>

\* "Send the current snapshot immediately".
Paint(r) ==
    /\ Goto(r, "subscribed", "emit")
    /\ hold' = [hold EXCEPT ![r] = snap]
    /\ UNCHANGED <<setVars, subs, buf, tabVars, spent>>

Emit(r) ==
    /\ Goto(r, "emit", "loop")
    /\ seen' = [seen EXCEPT ![r] = hold[r]] /\ hold' = [hold EXCEPT ![r] = 0]
    /\ UNCHANGED <<setVars, subs, buf, reply, spent>>

Receive(r) ==
    /\ buf[r] # <<>> /\ Goto(r, "loop", "emit")
    /\ hold' = [hold EXCEPT ![r] = Head(buf[r])]
    /\ buf' = [buf EXCEPT ![r] = Tail(@)]
    /\ UNCHANGED <<setVars, subs, tabVars, spent>>

\* A write fails or takes too long; the client is gone.
Hangup(r) ==
    /\ Spend("hangup")
    /\ Goto(r, "emit", "closing") \/ Goto(r, "loop", "closing")
    /\ hold' = [hold EXCEPT ![r] = 0]
    /\ UNCHANGED <<setVars, subs, buf, tabVars>>

\* Mutant: the handler returns without its deferred cancel.
CancelForgotten(r) ==
    /\ Goto(r, "closing", "off") /\ ~Locked
    /\ UNCHANGED <<setVars, subs, buf, hold, tabVars, spent>>

Cancel(r) ==
    /\ Goto(r, "closing", "off") /\ ~Locked
    /\ subs' = subs \ {r} /\ buf' = [buf EXCEPT ![r] = <<>>]
    /\ UNCHANGED <<setVars, hold, tabVars, spent>>

Stream(r) == Subscribe(r) \/ Paint(r) \/ Emit(r) \/ Receive(r) \/ Cancel(r)

-----------------------------------------------------------------------------
(* The refresh button: a request of its own beside the stream. *)

Refresh(r) ==
    /\ reply[r] = None /\ Spend("refresh")
    /\ reply' = [reply EXCEPT ![r] = snap]
    /\ UNCHANGED <<setVars, subs, buf, pc, hold, seen>>

\* The answer replaces what is shown; when it is lost that stays.
Answered(r) ==
    /\ reply[r] # None
    /\ \E s \in {seen[r], reply[r]} : seen' = [seen EXCEPT ![r] = s]
    /\ reply' = [reply EXCEPT ![r] = None]
    /\ UNCHANGED <<setVars, subs, buf, pc, hold, spent>>

Next == Store \/ Broadcast \/ \E r \in Reader : Stream(r) \/ Hangup(r) \/ Refresh(r) \/ Answered(r)

Spec == Init /\ [][Next]_vars

\* The loop's goroutine runs, and the handlers and the browsers of those that read.
FairSpec == Spec /\ WF_vars(Broadcast) /\ \A r \in Reader \ Stalled : WF_vars(Stream(r))

-----------------------------------------------------------------------------
\* The parts keep their types, and exactly the streams that are open are
\* subscribed: none is left behind by its handler.
TypeOK ==
    /\ snap \in 1..MaxSnap /\ loop \in {"idle", "stored", "send", "drop", "resend"}
    /\ todo \subseteq subs /\ (loop \in {"drop", "resend"} => full \in todo)
    /\ buf \in [Reader -> Seq(1..snap)] /\ \A r \in Reader : Len(buf[r]) <= Capacity
    /\ pc \in [Reader -> {"off", "subscribed", "emit", "loop", "closing"}]
    /\ hold \in [Reader -> 0..snap] /\ seen \in [Reader -> 0..snap]
    /\ reply \in [Reader -> 1..snap \cup {None}]
    /\ subs = {r \in Reader : pc[r] # "off"}

\* The broadcast of the current snapshot has not come to r yet.
Owed(r) == loop = "stored" \/ r \in todo

\* The snapshot r was sent last, if it was subscribed by then.
Latest(r) == IF Owed(r) THEN snap - 1 ELSE snap

\* "a slow consumer misses older snapshots rather than recent ones": what waits in
\* a channel is in order, has no gap and ends with the last snapshot sent,
\* however the handler's reads fall between the steps of the broadcast.
KeepsMostRecent ==
    \A r \in subs : \A i \in DOMAIN buf[r] : buf[r][i] + Len(buf[r]) = Latest(r) + i

\* A stream that has nothing to show, and to which nothing is on its way, shows
\* the snapshot of the store: none falls between Subscribe, Get and the broadcast.
CaughtUp ==
    \A r \in Reader :
        pc[r] = "loop" /\ buf[r] = <<>> /\ ~Owed(r) /\ spent.refresh = 0 => seen[r] = snap

\* "without ever blocking on a slow consumer": Set returns, whoever does not read.
SetReturns == loop # "idle" ~> loop = "idle"

\* A tab whose browser reads and reconnects comes to show every snapshot or a newer
\* one.  (The late answer to a refresh may put an older one back, until the next
\* pass: of that nothing is said.)
Shown ==
    \A r \in Reader \ Stalled : \A n \in 1..MaxSnap : <>(snap >= n) => <>(seen[r] >= n)
=============================================================================
