---------------------------- MODULE StreamsProofs ----------------------------
(***************************************************************************)
(* Proofs about Streams for any tabs, any capacity of the channels and any *)
(* bounds: what is buffered is the newest, and who has read everything     *)
(* shows the snapshot of the store.                                        *)
(***************************************************************************)
EXTENDS Streams, TLAPS

\* Set serves subscribers only while it broadcasts, room that was made stays,
\* and an answer to a refresh follows a refresh.
Orderly ==
    /\ loop \in {"idle", "stored"} => todo = {}
    /\ loop = "resend" => Room(full)
    /\ spent \in [hangup : Nat, refresh : Nat]
    /\ \A r \in Reader : reply[r] # None => spent.refresh > 0

\* What is about to be written by the stream of r and is followed by nothing is
\* the snapshot of the store.
Painted ==
    \A r \in Reader :
        pc[r] = "emit" /\ buf[r] = <<>> /\ ~Owed(r) => hold[r] = snap

IInv == TypeOK /\ KeepsMostRecent /\ CaughtUp /\ Orderly /\ Painted

-----------------------------------------------------------------------------
(* Runs of consecutive snapshots. *)

\* The sequence s is a run that ends with n.
EndsWith(s, n) == \A i \in DOMAIN s : s[i] + Len(s) = n + i

\* A sequence without its head.
LEMMA TailShorter ==
    ASSUME NEW S, NEW s \in Seq(S), s # <<>>
    PROVE  Tail(s) \in Seq(S) /\ Len(s) \in Nat \ {0} /\ Len(Tail(s)) = Len(s) - 1
OBVIOUS

\* Receiving, or dropping the oldest, leaves a run with the same end.
LEMMA RunTail ==
    ASSUME NEW s \in Seq(Nat), s # <<>>, NEW n \in Nat, EndsWith(s, n)
    PROVE  EndsWith(Tail(s), n) /\ (Tail(s) = <<>> => Head(s) = n)
<1>1. /\ Len(s) \in Nat \ {0} /\ Len(Tail(s)) = Len(s) - 1
      /\ DOMAIN Tail(s) = 1..Len(s) - 1 /\ DOMAIN s = 1..Len(s)
      /\ \A i \in 1..Len(s) - 1 : Tail(s)[i] = s[i + 1]
  OBVIOUS
<1>2. \A i \in 1..Len(s) : s[i] \in Nat /\ s[i] + Len(s) = n + i
  <2>1. \A i \in 1..Len(s) : s[i] \in Nat
    OBVIOUS
  <2>2. \A i \in 1..Len(s) : s[i] + Len(s) = n + i
    BY <1>1, Zenon DEF EndsWith
  <2> QED
    BY <2>1, <2>2
<1>3. EndsWith(Tail(s), n)
  <2> SUFFICES ASSUME NEW i \in 1..Len(s) - 1
               PROVE  Tail(s)[i] + Len(Tail(s)) = n + i
    BY <1>1 DEF EndsWith
  <2>1. s[i + 1] \in Nat /\ s[i + 1] + Len(s) = n + (i + 1)
    BY <1>1, <1>2
  <2> QED
    BY <1>1, <2>1
<1>4. ASSUME Tail(s) = <<>> PROVE Head(s) = n
  <2>1. Len(s) = 1
    <3>1. Len(<<>>) = 0
      OBVIOUS
    <3>2. Len(Tail(s)) = 0
      BY <1>4, <3>1, Zenon
    <3>3. Len(s) \in Nat \ {0} /\ Len(Tail(s)) = Len(s) - 1
      BY TailShorter, Zenon
    <3> DEFINE a == Len(s)
               b == Len(Tail(s))
    <3>4. a \in Nat /\ b = a - 1 /\ b = 0
      BY <3>2, <3>3
    <3> HIDE DEF a, b
    <3>5. a = 1
      BY <3>4
    <3> QED
      BY <3>5 DEF a
  <2>2. s[1] \in Nat /\ s[1] + 1 = n + 1
    BY <1>2, <2>1
  <2> QED
    BY <2>1, <2>2
<1> QED
  BY <1>3, <1>4

\* Sending the next snapshot extends a run.
LEMMA RunAppend ==
    ASSUME NEW s \in Seq(Nat), NEW n \in Nat, EndsWith(s, n)
    PROVE  EndsWith(Append(s, n + 1), n + 1)
<1> DEFINE t == Append(s, n + 1)
<1>1. /\ Len(s) \in Nat /\ Len(t) = Len(s) + 1 /\ DOMAIN t = 1..Len(s) + 1
      /\ DOMAIN s = 1..Len(s) /\ t[Len(s) + 1] = n + 1
      /\ \A i \in 1..Len(s) : t[i] = s[i]
  OBVIOUS
<1>2. \A i \in 1..Len(s) : s[i] \in Nat /\ s[i] + Len(s) = n + i
  BY <1>1 DEF EndsWith
<1>3. ASSUME NEW i \in 1..Len(s) + 1 PROVE t[i] + Len(t) = (n + 1) + i
  <2>1. CASE i \in 1..Len(s)
    <3>1. t[i] = s[i] /\ s[i] \in Nat /\ s[i] + Len(s) = n + i
      BY <1>1, <1>2, <2>1
    <3>2. Len(s) \in Nat /\ Len(t) = Len(s) + 1 /\ i \in Nat
      BY <1>1, <2>1
    <3> HIDE DEF t
    <3> QED
      BY <3>1, <3>2
  <2>2. CASE i = Len(s) + 1
    BY <1>1, <2>2
  <2> QED
    BY <1>1, <2>1, <2>2
<1> QED
  BY <1>1, <1>3 DEF EndsWith

-----------------------------------------------------------------------------
(* Every step keeps the invariant. *)

\* From here on every subscriber is owed the new snapshot.
LEMMA StoreIInv ==
    ASSUME IInv, Store
    PROVE  IInv'
<1> USE StreamsAssumption DEF IInv
<1>1. TypeOK'
  BY DEF Store, TypeOK, tabVars
<1>2. KeepsMostRecent'
  BY DEF Store, TypeOK, KeepsMostRecent, Orderly, Owed, Latest
<1>3. CaughtUp'
  BY DEF Store, CaughtUp, Owed
<1>4. Orderly'
  BY DEF Store, Orderly, tabVars
<1>5. Painted'
  BY DEF Store, Painted, Owed
<1> QED
  BY <1>1, <1>2, <1>3, <1>4, <1>5

\* Who is subscribed now is owed it, and nobody else is.
LEMMA BeginIInv ==
    ASSUME IInv, Begin
    PROVE  IInv'
<1> USE StreamsAssumption DEF IInv
<1>1. TypeOK'
  BY DEF Begin, TypeOK, tabVars
<1>2. KeepsMostRecent'
  BY DEF Begin, KeepsMostRecent, Owed, Latest
<1>3. CaughtUp'
  BY DEF Begin, TypeOK, CaughtUp, Owed
<1>4. Orderly'
  BY DEF Begin, Orderly, tabVars
<1>5. Painted'
  BY DEF Begin, TypeOK, Painted, Owed
<1> QED
  BY <1>1, <1>2, <1>3, <1>4, <1>5

\* The snapshot reaches a channel with room, or its subscriber stays owed.
LEMMA SendIInv ==
    ASSUME IInv, NEW r \in Reader, Send(r)
    PROVE  IInv'
<1> USE StreamsAssumption DEF IInv
<1>1. TypeOK'
  <2>1. /\ r \in subs /\ buf[r] \in Seq(1..snap) /\ snap \in 1..snap
        /\ subs' = subs /\ snap' = snap
    BY DEF Send, TypeOK
  <2>2. CASE Room(r)
    <3>1. Append(buf[r], snap) \in Seq(1..snap) /\ Len(Append(buf[r], snap)) <= Capacity
      BY <2>1, <2>2 DEF Send, Room
    <3>2. buf' = [buf EXCEPT ![r] = Append(buf[r], snap)] /\ r \in Reader
      BY <2>2 DEF Send, Push
    <3>3. buf \in [Reader -> Seq(1..snap)] /\ \A q \in Reader : Len(buf[q]) <= Capacity
      BY DEF Send, TypeOK
    <3>4. /\ buf' \in [Reader -> Seq(1..snap)]
          /\ \A q \in Reader : Len(buf'[q]) <= Capacity
      BY <3>1, <3>2, <3>3
    <3> QED
      BY <2>1, <2>2, <3>4 DEF Send, TypeOK, tabVars
  <2>3. CASE ~Room(r)
    BY <2>1, <2>3 DEF Send, TypeOK, tabVars
  <2> QED
    BY <2>2, <2>3
<1>2. KeepsMostRecent'
  <2> SUFFICES ASSUME NEW q \in subs' PROVE EndsWith(buf'[q], Latest(q)')
    BY DEF Send, KeepsMostRecent, EndsWith
  <2>1. CASE q = r /\ Room(r)
    <3>1. EndsWith(buf[r], snap - 1) /\ buf[r] \in Seq(Nat) /\ snap - 1 \in Nat
      BY <2>1 DEF Send, TypeOK, KeepsMostRecent, Owed, Latest, EndsWith
    <3>2. EndsWith(Append(buf[r], snap), snap)
      BY <3>1, RunAppend DEF TypeOK
    <3> QED
      BY <2>1, <3>2 DEF Send, TypeOK, Owed, Latest, Push
  <2>2. CASE ~(q = r /\ Room(r))
    BY <2>2 DEF Send, TypeOK, KeepsMostRecent, Owed, Latest, Push, EndsWith
  <2> QED
    BY <2>1, <2>2
<1>3. CaughtUp'
  BY DEF Send, TypeOK, CaughtUp, Owed, Push, tabVars
<1>4. Orderly'
  BY DEF Send, Orderly, tabVars
<1>5. Painted'
  BY DEF Send, TypeOK, Painted, Owed, Push
<1> QED
  BY <1>1, <1>2, <1>3, <1>4, <1>5

\* The oldest goes; the subscriber is still owed the newest.
LEMMA MakeRoomIInv ==
    ASSUME IInv, MakeRoom
    PROVE  IInv'
<1> USE StreamsAssumption DEF IInv
<1>1. TypeOK'
  <2>1. full \in Reader /\ buf[full] \in Seq(1..snap) /\ Len(buf[full]) <= Capacity
    BY DEF MakeRoom, TypeOK
  <2>2. ASSUME buf[full] # <<>>
        PROVE  Tail(buf[full]) \in Seq(1..snap) /\ Len(Tail(buf[full])) <= Capacity
    <3>1. Tail(buf[full]) \in Seq(1..snap) /\ Len(Tail(buf[full])) = Len(buf[full]) - 1
      BY <2>1, <2>2, TailShorter, Zenon
    <3>2. Len(buf[full]) \in Nat
      BY <2>1
    <3> QED
      BY <2>1, <3>1, <3>2, StreamsAssumption
  <2>3. /\ buf' \in [Reader -> Seq(1..snap)]
        /\ \A q \in Reader : Len(buf'[q]) <= Capacity
    BY <2>1, <2>2 DEF MakeRoom, TypeOK
  <2> QED
    BY <2>3 DEF MakeRoom, TypeOK, tabVars
<1>2. KeepsMostRecent'
  <2> SUFFICES ASSUME NEW q \in subs' PROVE EndsWith(buf'[q], Latest(q)')
    BY DEF MakeRoom, KeepsMostRecent, EndsWith
  <2>1. CASE q = full /\ buf[full] # <<>>
    <3>1. EndsWith(buf[q], Latest(q)) /\ buf[q] \in Seq(Nat) /\ Latest(q) \in Nat
      BY <2>1 DEF MakeRoom, TypeOK, KeepsMostRecent, Latest, EndsWith
    <3>2. EndsWith(Tail(buf[q]), Latest(q))
      BY <2>1, <3>1, RunTail
    <3> QED
      BY <2>1, <3>2 DEF MakeRoom, TypeOK, Owed, Latest
  <2>2. CASE ~(q = full /\ buf[full] # <<>>)
    BY <2>2 DEF MakeRoom, KeepsMostRecent, Owed, Latest, EndsWith
  <2> QED
    BY <2>1, <2>2
<1>3. CaughtUp'
  BY DEF MakeRoom, TypeOK, CaughtUp, Owed, tabVars
<1>4. Orderly'
  BY DEF MakeRoom, TypeOK, Orderly, Room, tabVars
<1>5. Painted'
  BY DEF MakeRoom, TypeOK, Painted, Owed
<1> QED
  BY <1>1, <1>2, <1>3, <1>4, <1>5

\* There is room, since only the handler has touched the channel meanwhile.
LEMMA ResendIInv ==
    ASSUME IInv, Resend
    PROVE  IInv'
<1> USE StreamsAssumption DEF IInv
<1>1. TypeOK'
  BY DEF Resend, TypeOK, Room, Push, tabVars
<1>2. KeepsMostRecent'
  <2> SUFFICES ASSUME NEW q \in subs' PROVE EndsWith(buf'[q], Latest(q)')
    BY DEF Resend, KeepsMostRecent, EndsWith
  <2>1. CASE q = full
    <3>1. EndsWith(buf[q], snap - 1) /\ buf[q] \in Seq(Nat) /\ snap - 1 \in Nat
      BY <2>1 DEF Resend, TypeOK, KeepsMostRecent, Owed, Latest, EndsWith
    <3>2. EndsWith(Append(buf[q], snap), snap)
      BY <3>1, RunAppend DEF TypeOK
    <3> QED
      BY <2>1, <3>2 DEF Resend, TypeOK, Orderly, Owed, Latest, Push
  <2>2. CASE q # full
    BY <2>2 DEF Resend, KeepsMostRecent, Owed, Latest, Push, EndsWith
  <2> QED
    BY <2>1, <2>2
<1>3. CaughtUp'
  <2>1. full \in Reader /\ buf'[full] # <<>>
    BY DEF Resend, TypeOK, Orderly, Room, Push, tabVars
  <2> QED
    BY <2>1 DEF Resend, CaughtUp, Owed, Push, tabVars
<1>4. Orderly'
  BY DEF Resend, Orderly, tabVars
<1>5. Painted'
  <2>1. full \in Reader /\ buf'[full] # <<>>
    BY DEF Resend, TypeOK, Orderly, Room, Push, tabVars
  <2> QED
    BY <2>1 DEF Resend, Painted, Owed, Push
<1> QED
  BY <1>1, <1>2, <1>3, <1>4, <1>5

\* Nobody is owed anything.
LEMMA DoneIInv ==
    ASSUME IInv, Done
    PROVE  IInv'
<1> USE StreamsAssumption DEF IInv
<1>1. TypeOK'
  BY DEF Done, TypeOK, tabVars
<1>2. KeepsMostRecent'
  BY DEF Done, KeepsMostRecent, Owed, Latest
<1>3. CaughtUp'
  BY DEF Done, CaughtUp, Owed, tabVars
<1>4. Orderly'
  BY DEF Done, Orderly, tabVars
<1>5. Painted'
  BY DEF Done, Painted, Owed
<1> QED
  BY <1>1, <1>2, <1>3, <1>4, <1>5

\* A new channel is empty, and no broadcast is under way.
LEMMA SubscribeIInv ==
    ASSUME IInv, NEW r \in Reader, Subscribe(r)
    PROVE  IInv'
<1> USE StreamsAssumption DEF IInv
<1>1. TypeOK'
  BY DEF Subscribe, TypeOK, Goto, setVars, tabVars
<1>2. KeepsMostRecent'
  BY DEF Subscribe, TypeOK, KeepsMostRecent, Owed, Latest, setVars
<1>3. CaughtUp'
  BY DEF Subscribe, CaughtUp, Owed, Goto, setVars, tabVars
<1>4. Orderly'
  BY DEF Subscribe, Orderly, Room, setVars, tabVars
<1>5. Painted'
  BY DEF Subscribe, Painted, Owed, Goto, setVars
<1> QED
  BY <1>1, <1>2, <1>3, <1>4, <1>5

\* What Get returns is the snapshot of the store, owed or not.
LEMMA PaintIInv ==
    ASSUME IInv, NEW r \in Reader, Paint(r)
    PROVE  IInv'
<1> USE StreamsAssumption DEF IInv
<1>1. TypeOK'
  BY DEF Paint, TypeOK, Goto, setVars, tabVars
<1>2. KeepsMostRecent'
  BY DEF Paint, KeepsMostRecent, Owed, Latest, setVars
<1>3. CaughtUp'
  BY DEF Paint, CaughtUp, Owed, Goto, setVars, tabVars
<1>4. Orderly'
  BY DEF Paint, Orderly, Room, setVars, tabVars
<1>5. Painted'
  BY DEF Paint, TypeOK, Painted, Owed, Goto, setVars
<1> QED
  BY <1>1, <1>2, <1>3, <1>4, <1>5

\* The tab shows what the handler held.
LEMMA EmitIInv ==
    ASSUME IInv, NEW r \in Reader, Emit(r)
    PROVE  IInv'
<1> USE StreamsAssumption DEF IInv
<1>1. TypeOK'
  BY DEF Emit, TypeOK, Goto, setVars
<1>2. KeepsMostRecent'
  BY DEF Emit, KeepsMostRecent, Owed, Latest, setVars
<1>3. CaughtUp'
  BY DEF Emit, TypeOK, CaughtUp, Painted, Owed, Goto, setVars
<1>4. Orderly'
  BY DEF Emit, Orderly, Room, setVars
<1>5. Painted'
  BY DEF Emit, TypeOK, Painted, Owed, Goto, setVars
<1> QED
  BY <1>1, <1>2, <1>3, <1>4, <1>5

\* Who takes the last of a run holds the snapshot of the store.
LEMMA ReceiveIInv ==
    ASSUME IInv, NEW r \in Reader, Receive(r)
    PROVE  IInv'
<1> USE StreamsAssumption DEF IInv
<1>1. TypeOK'
  BY DEF Receive, TypeOK, Goto, setVars, tabVars
<1>2. KeepsMostRecent'
  <2> SUFFICES ASSUME NEW q \in subs' PROVE EndsWith(buf'[q], Latest(q)')
    BY DEF Receive, KeepsMostRecent, EndsWith
  <2>1. r \in subs /\ buf[r] \in Seq(Nat) /\ Latest(r) \in Nat /\ EndsWith(buf[r], Latest(r))
    BY DEF Receive, TypeOK, KeepsMostRecent, Orderly, Owed, Latest, Goto,
       EndsWith
  <2>2. EndsWith(Tail(buf[r]), Latest(r))
    BY <2>1, RunTail DEF Receive
  <2>3. CASE q = r
    BY <2>2, <2>3 DEF Receive, TypeOK, Owed, Latest, setVars
  <2>4. CASE q # r
    BY <2>4 DEF Receive, KeepsMostRecent, Owed, Latest, setVars, EndsWith
  <2> QED
    BY <2>3, <2>4
<1>3. CaughtUp'
  BY DEF Receive, TypeOK, CaughtUp, Owed, Goto, setVars, tabVars
<1>4. Orderly'
  BY DEF Receive, Orderly, Room, setVars, tabVars
<1>5. Painted'
  <2>1. r \in subs /\ buf[r] \in Seq(Nat) /\ Latest(r) \in Nat /\ EndsWith(buf[r], Latest(r))
    BY DEF Receive, TypeOK, KeepsMostRecent, Orderly, Owed, Latest, Goto,
       EndsWith
  <2>2. Tail(buf[r]) = <<>> => Head(buf[r]) = Latest(r)
    BY <2>1, RunTail DEF Receive
  <2> QED
    BY <2>2 DEF Receive, TypeOK, Painted, Owed, Latest, Goto, setVars
<1> QED
  BY <1>1, <1>2, <1>3, <1>4, <1>5

\* The handler leaves its loop; it is subscribed until its cancel.
LEMMA HangupIInv ==
    ASSUME IInv, NEW r \in Reader, Hangup(r)
    PROVE  IInv'
<1> USE StreamsAssumption DEF IInv
<1>1. TypeOK'
  <2>1. pc' \in [Reader -> {"off", "subscribed", "emit", "loop", "closing"}] /\ pc[r] # "off" /\ pc' = [pc EXCEPT ![r] = "closing"]
    BY DEF Hangup, TypeOK, Goto
  <2> QED
    BY <2>1 DEF Hangup, TypeOK, setVars, tabVars
<1>2. KeepsMostRecent'
  BY DEF Hangup, KeepsMostRecent, Owed, Latest, setVars
<1>3. CaughtUp'
  BY DEF Hangup, TypeOK, CaughtUp, Owed, Goto, Spend, setVars, tabVars
<1>4. Orderly'
  <2>1. spent' \in [hangup : Nat, refresh : Nat] /\ spent'.refresh = spent.refresh
    BY DEF Hangup, KeepsMostRecent, CaughtUp, Orderly, Painted, Owed, Latest,
       Room, Goto, Spend, setVars, tabVars
  <2> QED
    BY <2>1 DEF Hangup, Orderly, Room, setVars, tabVars
<1>5. Painted'
  BY DEF Hangup, TypeOK, Painted, Owed, Goto, setVars
<1> QED
  BY <1>1, <1>2, <1>3, <1>4, <1>5

\* No broadcast is under way that could serve it.
LEMMA CancelIInv ==
    ASSUME IInv, NEW r \in Reader, Cancel(r)
    PROVE  IInv'
<1> USE StreamsAssumption DEF IInv
<1>1. TypeOK'
  BY DEF Cancel, TypeOK, Orderly, Goto, Locked, setVars, tabVars
<1>2. KeepsMostRecent'
  BY DEF Cancel, KeepsMostRecent, Owed, Latest, setVars
<1>3. CaughtUp'
  BY DEF Cancel, CaughtUp, Owed, Goto, setVars, tabVars
<1>4. Orderly'
  BY DEF Cancel, Orderly, Room, setVars, tabVars
<1>5. Painted'
  BY DEF Cancel, Painted, Owed, Goto, setVars
<1> QED
  BY <1>1, <1>2, <1>3, <1>4, <1>5

\* From here on a tab may show something else than its stream.
LEMMA RefreshIInv ==
    ASSUME IInv, NEW r \in Reader, Refresh(r)
    PROVE  IInv'
<1> USE StreamsAssumption DEF IInv
<1>1. TypeOK'
  BY DEF Refresh, TypeOK, setVars
<1>2. KeepsMostRecent'
  BY DEF Refresh, KeepsMostRecent, Owed, Latest, setVars
<1>3. CaughtUp'
  BY DEF Refresh, CaughtUp, Orderly, Spend
<1>4. Orderly'
  <2>1. spent \in [hangup : Nat, refresh : Nat] /\ spent' = [spent EXCEPT !.refresh = @ + 1]
    BY DEF Refresh, Orderly, Spend
  <2>2. spent' \in [hangup : Nat, refresh : Nat] /\ spent'.refresh = spent.refresh + 1
    BY <2>1
  <2> QED
    BY <2>1, <2>2 DEF Refresh, Orderly, Room, setVars
<1>5. Painted'
  BY DEF Refresh, Painted, Owed, setVars
<1> QED
  BY <1>1, <1>2, <1>3, <1>4, <1>5

\* An answer implies a refresh.
LEMMA AnsweredIInv ==
    ASSUME IInv, NEW r \in Reader, Answered(r)
    PROVE  IInv'
<1> USE StreamsAssumption DEF IInv
<1>1. TypeOK'
  BY DEF Answered, TypeOK, setVars
<1>2. KeepsMostRecent'
  BY DEF Answered, KeepsMostRecent, Owed, Latest, setVars
<1>3. CaughtUp'
  BY DEF Answered, CaughtUp, Orderly
<1>4. Orderly'
  BY DEF Answered, Orderly, Room, setVars
<1>5. Painted'
  BY DEF Answered, Painted, Owed, setVars
<1> QED
  BY <1>1, <1>2, <1>3, <1>4, <1>5

-----------------------------------------------------------------------------

\* The invariant holds when the daemon starts.
LEMMA InitIInv == Init => IInv
<1> SUFFICES ASSUME Init PROVE IInv
  OBVIOUS
<1> USE StreamsAssumption DEF Init
<1>1. TypeOK
  BY DEF TypeOK
<1>2. KeepsMostRecent /\ CaughtUp /\ Painted
  BY DEF KeepsMostRecent, CaughtUp, Painted
<1>3. Orderly
  BY DEF Orderly, Room
<1> QED
  BY <1>1, <1>2, <1>3 DEF IInv

\* It depends on nothing but the variables.
LEMMA StutterIInv == IInv /\ UNCHANGED vars => IInv'
BY DEF IInv, vars, setVars, tabVars, TypeOK, KeepsMostRecent, CaughtUp, Orderly, Painted,
       Owed, Latest, Room

\* The inductive invariant holds of every reachable state.
THEOREM Invariance == Spec => []IInv
<1>1. IInv /\ [Next]_vars => IInv'
  <2> SUFFICES ASSUME IInv, [Next]_vars PROVE IInv'
    OBVIOUS
  <2>1. ASSUME NEW r \in Reader, Stream(r) PROVE IInv'
    BY <2>1, SubscribeIInv, PaintIInv, EmitIInv, ReceiveIInv, CancelIInv DEF Stream
  <2>2. ASSUME Broadcast PROVE IInv'
    BY <2>2, BeginIInv, SendIInv, MakeRoomIInv, ResendIInv, DoneIInv DEF Broadcast
  <2> QED
    BY <2>1, <2>2, StoreIInv, HangupIInv, RefreshIInv, AnsweredIInv, StutterIInv DEF Next
<1> QED
  BY <1>1, InitIInv, PTL DEF Spec

\* The store, the handlers and the tabs keep their types, and exactly the open
\* streams are subscribed.
THEOREM TypeCorrect == Spec => []TypeOK
BY Invariance, PTL DEF IInv

\* A channel of status.Store holds the last snapshots sent, in order and without a
\* gap, whatever its capacity and however slowly it is read.
THEOREM NewestKept == Spec => []KeepsMostRecent
BY Invariance, PTL DEF IInv

\* A stream with nothing left to show shows the snapshot of the store.
THEOREM NothingMissed == Spec => []CaughtUp
BY Invariance, PTL DEF IInv
=============================================================================
