----------------------------- MODULE LogBuffer ------------------------------
(***************************************************************************)
(* The log buffer and the log page.  Every goroutine that logs appends its *)
(* line to the ring under one lock and then offers it to the subscribers,  *)
(* one after the other, under another lock, which it holds until the last  *)
(* one and which a handler needs to subscribe and to unregister; where a   *)
(* channel is full the line is dropped.  The page loads the ring once and  *)
(* then opens a stream, whose handler subscribes; the two are not          *)
(* connected, so that lines may be missing or come twice there, and those  *)
(* of two goroutines may swap.                                             *)
(*                                                                         *)
(* Lines are numbered in the order of the ring.                            *)
(***************************************************************************)
EXTENDS Naturals, Sequences

CONSTANTS
    Logger,         \* goroutines that log
    Page,           \* open log pages
    Nobody,         \* who holds a lock that is free
    Stalled,        \* those whose browser need not read
    Retained,       \* capacity of the ring
    Capacity,       \* of a subscriber's channel
    Shown,          \* lines a page keeps
    MaxLines,       \* bound: lines logged
    MaxHangups      \* bound: streams that break, and loads that fail

ASSUME LogBufferAssumption ==
    /\ Stalled \subseteq Page
    /\ Nobody \notin Logger
    /\ Retained \in Nat \ {0} /\ Capacity \in Nat \ {0} /\ Shown \in Nat \ {0}
    /\ MaxLines \in Nat /\ MaxHangups \in Nat

VARIABLES
    author,     \* who logged each line; its length is the number of lines
    ring,       \* entries
    offer,      \* per goroutine, the line it has still to offer, 0 for none
    holder,     \* the goroutine that holds subsMu
    todo,       \* the subscribers it has still to send to
    subs,       \* the pages whose handlers are subscribed
    buf,        \* their channels
    page,       \* where each page is: loading, waiting for its stream, live
    shown,      \* the lines on each page
    hangups

lockVars == <<holder, todo>>
vars == <<author, ring, offer, lockVars, subs, buf, page, shown, hangups>>

Init ==
    /\ author = <<>> /\ ring = <<>>
    /\ offer = [g \in Logger |-> 0]
    /\ holder = Nobody /\ todo = {}
    /\ subs = {} /\ buf = [p \in Page |-> <<>>]
    /\ page = [p \in Page |-> "loading"] /\ shown = [p \in Page |-> <<>>]
    /\ hangups = 0

Last(n, s) == IF Len(s) <= n THEN s ELSE SubSeq(s, Len(s) - n + 1, Len(s))

-----------------------------------------------------------------------------
(* Buffer.add. *)

\* Under mu: the oldest line makes room for the new one.
Log(g) ==
    /\ offer[g] = 0 /\ Len(author) < MaxLines
    /\ author' = Append(author, g)
    /\ ring' = Append(IF Len(ring) = Retained THEN Tail(ring) ELSE ring, Len(author) + 1)
    /\ offer' = [offer EXCEPT ![g] = Len(author) + 1]
    /\ UNCHANGED <<lockVars, subs, buf, page, shown, hangups>>

\* subsMu is taken, with the subscribers there are now.
Lock(g) ==
    /\ offer[g] # 0 /\ holder = Nobody
    /\ holder' = g /\ todo' = subs
    /\ UNCHANGED <<author, ring, offer, subs, buf, page, shown, hangups>>

Room(p) == Len(buf[p]) < Capacity

\* Mutant: a subscriber's full channel is waited for.
SendBlocking(p) ==
    /\ p \in todo /\ Room(p)
    /\ buf' = [buf EXCEPT ![p] = Append(@, offer[holder])]
    /\ todo' = todo \ {p}
    /\ UNCHANGED <<author, ring, offer, holder, subs, page, shown, hangups>>

\* Mutant: the line is queued whether the channel has room or not.
SendUnbounded(p) ==
    /\ p \in todo
    /\ buf' = [buf EXCEPT ![p] = Append(@, offer[holder])]
    /\ todo' = todo \ {p}
    /\ UNCHANGED <<author, ring, offer, holder, subs, page, shown, hangups>>

\* The holder sends to the next subscriber, or drops the line for it.
Send(p) ==
    /\ p \in todo
    /\ buf' = IF Room(p) THEN [buf EXCEPT ![p] = Append(@, offer[holder])] ELSE buf
    /\ todo' = todo \ {p}
    /\ UNCHANGED <<author, ring, offer, holder, subs, page, shown, hangups>>

\* The last one is served, and what logged goes on.
Unlock ==
    /\ holder # Nobody /\ todo = {}
    /\ offer' = [offer EXCEPT ![holder] = 0]
    /\ holder' = Nobody
    /\ UNCHANGED <<author, ring, todo, subs, buf, page, shown, hangups>>

-----------------------------------------------------------------------------
(* The page and the handler of its stream. *)

Hangup == hangups < MaxHangups /\ hangups' = hangups + 1

\* GET /logs: a copy of the ring.
Load(p) ==
    /\ page[p] = "loading"
    /\ shown' = [shown EXCEPT ![p] = ring]
    /\ page' = [page EXCEPT ![p] = "waiting"]
    /\ UNCHANGED <<author, ring, offer, lockVars, subs, buf, hangups>>

\* It fails: the page starts empty.
LoadFails(p) ==
    /\ page[p] = "loading" /\ Hangup
    /\ page' = [page EXCEPT ![p] = "waiting"]
    /\ UNCHANGED <<author, ring, offer, lockVars, subs, buf, shown>>

\* Mutant: every stream begins with the lines retained.
SubscribeReplays(p) ==
    /\ page[p] = "waiting" /\ holder = Nobody
    /\ subs' = subs \cup {p} /\ buf' = [buf EXCEPT ![p] = ring]
    /\ page' = [page EXCEPT ![p] = "live"]
    /\ UNCHANGED <<author, ring, offer, lockVars, shown, hangups>>

\* The stream is opened, or opened again by the browser.
Subscribe(p) ==
    /\ page[p] = "waiting" /\ holder = Nobody
    /\ subs' = subs \cup {p} /\ buf' = [buf EXCEPT ![p] = <<>>]
    /\ page' = [page EXCEPT ![p] = "live"]
    /\ UNCHANGED <<author, ring, offer, lockVars, shown, hangups>>

\* The handler writes a line, and the page adds it at the end.
Emit(p) ==
    /\ page[p] = "live" /\ buf[p] # <<>>
    /\ buf' = [buf EXCEPT ![p] = Tail(@)]
    /\ shown' = [shown EXCEPT ![p] = Last(Shown, Append(@, Head(buf[p])))]
    /\ UNCHANGED <<author, ring, offer, lockVars, subs, page, hangups>>

\* A write fails or the connection ends; the handler takes a line with it that it
\* could not write, and unregisters.  While it waits for subsMu it only leaves
\* its channel unread, as a page that has yet to break does.
Breaks(p) ==
    /\ page[p] = "live" /\ holder = Nobody /\ Hangup
    /\ subs' = subs \ {p} /\ page' = [page EXCEPT ![p] = "waiting"]
    /\ UNCHANGED <<author, ring, offer, lockVars, buf, shown>>

Next ==
    \/ \E g \in Logger : Log(g) \/ Lock(g)
    \/ Unlock
    \/ \E p \in Page : Send(p) \/ Load(p) \/ LoadFails(p) \/ Subscribe(p) \/ Emit(p) \/ Breaks(p)

Spec == Init /\ [][Next]_vars

\* A goroutine that logs goes on, and a mutex that is free again and again is
\* handed in the end to one that waits for it (sync.Mutex prevents starvation);
\* of browsers nothing is assumed that stall.
FairSpec ==
    /\ Spec
    /\ \A g \in Logger : SF_vars(Lock(g))
    /\ WF_vars(Unlock \/ \E p \in Page : Send(p))
    /\ \A p \in Page \ Stalled : WF_vars(Load(p) \/ Subscribe(p) \/ Emit(p))

-----------------------------------------------------------------------------
Line == 1 .. Len(author)

\* Types and bounds; the ring is the last lines logged, without a gap; a channel
\* is filled only for a page that is subscribed, by a goroutine with a line to
\* offer.
TypeOK ==
    /\ author \in Seq(Logger)
    /\ ring \in Seq(Nat) /\ Len(ring) <= Retained
    /\ \A i \in DOMAIN ring : ring[i] = Len(author) - Len(ring) + i
    /\ Len(ring) = Retained \/ Len(ring) = Len(author)
    /\ offer \in [Logger -> Nat] /\ \A g \in Logger : offer[g] \in Line \cup {0}
    /\ holder \in Logger \cup {Nobody} /\ todo \subseteq subs
    /\ holder = Nobody => todo = {}
    /\ holder # Nobody => offer[holder] # 0
    /\ subs = {p \in Page : page[p] = "live"}
    /\ buf \in [Page -> Seq(Nat)] /\ \A p \in Page : Len(buf[p]) <= Capacity
    /\ page \in [Page -> {"loading", "waiting", "live"}]
    /\ shown \in [Page -> Seq(Nat)]
    /\ hangups \in Nat

\* On every page, the lines of one goroutine are in the order it logged them,
\* although the page gets them on two ways and through several streams; only
\* lines of different goroutines swap.
EachInOrder ==
    \A p \in Page : \A i, j \in DOMAIN shown[p] :
        i < j /\ author[shown[p][i]] = author[shown[p][j]] => shown[p][i] <= shown[p][j]

\* No goroutine of the daemon is held up by logging, whoever does not read: the
\* lock it needs is held by others for as long as they send to every page.
LogReturns == \A g \in Logger : offer[g] # 0 ~> offer[g] = 0

=============================================================================
