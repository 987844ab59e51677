--------------------------- MODULE AccountsProofs ---------------------------
(***************************************************************************)
(* Theorems about accounts and sessions, for any number of handlers, any   *)
(* names and any bounds.  The invariant adds to the types what a handler   *)
(* that came too late can still be doing.                                  *)
(***************************************************************************)
EXTENDS Accounts, TLAPS

\* A late setup has an account to find when it counts, and has not counted yet;
\* a late request carries a session that is over and has not read it yet.
LateIsOver ==
    \A r \in Request :
        /\ req[r].step = "setup" /\ req[r].late => accounts # {}
        /\ req[r].step \in {"counted", "valid"} => ~req[r].late
        /\ req[r].step = "guard" /\ req[r].late => session[req[r].token] \in {"expired", "deleted"}
        /\ req[r].step = "found" => ~req[r].late

IInv == TypeOK /\ NeverLockedOut /\ LateIsOver

Handler == [step : Step, name : Name \cup {None}, token : Nat \cup {None}, late : BOOLEAN]

-----------------------------------------------------------------------------
(* The handlers, one action after the other. *)

\* The idle handler is a handler that owes nothing.
LEMMA IdleType == Idle \in Handler /\ Idle.step = "idle"
BY DEF Idle, Handler, Step

\* A handler that goes on, and one that ends; the others stay as they are.
LEMMA GoesType ==
    ASSUME TypeOK, NEW r \in Request, NEW step \in Step, Goes(r, step)
    PROVE  /\ req' \in [Request -> Handler]
           /\ req'[r] = [req[r] EXCEPT !.step = step]
           /\ req'[r].step = step /\ req'[r].name = req[r].name /\ req'[r].token = req[r].token
           /\ \A o \in Request \ {r} : req'[o] = req[o]
<1>1. req \in [Request -> Handler]
  BY DEF TypeOK, Handler
<1> QED BY <1>1 DEF Goes, Handler

LEMMA EndsType ==
    ASSUME TypeOK, NEW r \in Request, Ends(r)
    PROVE  /\ req' \in [Request -> Handler]
           /\ req'[r].step = "idle"
           /\ \A o \in Request \ {r} : req'[o] = req[o]
<1>1. req \in [Request -> Handler]
  BY DEF TypeOK, Handler
<1> QED BY <1>1, IdleType DEF Ends

\* What the step of one handler has to show of it, the others being as they were.
Fits(r) ==
    /\ up
    /\ req[r].step \in {"setup", "counted", "valid", "login"} => req[r].name \in Name
    /\ req[r].step \in {"created", "known"} => req[r].name \in accounts
    /\ req[r].step \in {"guard", "found", "stale"} => req[r].token \in Token

LEMMA OneSteps ==
    ASSUME TypeOK, NEW r \in Request, req' \in [Request -> Handler],
           \A o \in Request \ {r} : req'[o] = req[o],
           UNCHANGED <<up, starts, armed, session, upsets>>,
           accounts \subseteq accounts', accounts' \subseteq Name,
           req'[r].step = "idle" \/ Fits(r)'
    PROVE  TypeOK'
<1>1. ASSUME NEW o \in Request, req'[o].step # "idle" PROVE Fits(o)'
  <2>1. CASE o = r
    BY <2>1, <1>1
  <2>2. CASE o # r
    <3>1. req'[o] = req[o] /\ req[o].step # "idle"
      BY <2>2, <1>1
    <3> QED BY <3>1 DEF TypeOK, Fits
  <2> QED BY <2>1, <2>2
<1>2. req' \in [Request -> [step : Step, name : Name \cup {None},
                            token : Nat \cup {None}, late : BOOLEAN]]
  BY DEF Handler
<1>3. \A o \in Request :
          /\ req'[o].step # "idle" => up'
          /\ req'[o].step \in {"setup", "counted", "valid", "login"} => req'[o].name \in Name
          /\ req'[o].step \in {"created", "known"} => req'[o].name \in accounts'
          /\ req'[o].step \in {"guard", "found", "stale"} => req'[o].token \in Token
  BY <1>1 DEF Fits
<1> QED BY <1>2, <1>3 DEF TypeOK

\* The daemon's start: no handler runs yet, and there is a way in.
LEMMA StartKeeps == ASSUME IInv, Start PROVE IInv'
<1> USE AccountsAssumption DEF IInv
<1>1. TypeOK'
  BY DEF TypeOK, Start
<1>2. NeverLockedOut'
  BY DEF TypeOK, Start, NeverLockedOut
<1>3. LateIsOver'
  BY DEF LateIsOver, Start
<1> QED BY <1>1, <1>2, <1>3

\* Its end: nothing runs.
LEMMA StopKeeps == ASSUME IInv, Stop PROVE IInv'
<1> USE AccountsAssumption DEF IInv
<1>1. TypeOK'
  BY IdleType DEF TypeOK, Stop, Handler, Idle
<1>2. NeverLockedOut'
  BY DEF Stop, NeverLockedOut
<1>3. LateIsOver'
  BY IdleType DEF LateIsOver, Stop, Idle
<1> QED BY <1>1, <1>2, <1>3

\* Requests of every kind, as they arrive.
LEMMA ArrivalKeeps ==
    ASSUME IInv, NEW r \in Request, SetupArrives(r) \/ LoginArrives(r) \/ GuardArrives(r)
    PROVE  IInv'
<1> USE AccountsAssumption DEF IInv
<1>1. NeverLockedOut'
  BY DEF SetupArrives, LoginArrives, GuardArrives, Arrives, NeverLockedOut
<1>2. CASE SetupArrives(r)
  <2>1. PICK n \in Name, k \in 1 .. starts : Arrives(r, "setup", n, k, accounts # {})
    BY <1>2 DEF SetupArrives
  <2>2. k \in Nat
    BY <2>1 DEF TypeOK
  <2>3. TypeOK'
    BY <2>1, <2>2 DEF TypeOK, Arrives, Step
  <2>4. LateIsOver'
    BY <2>1 DEF TypeOK, LateIsOver, Arrives
  <2> QED BY <1>1, <2>3, <2>4
<1>3. CASE LoginArrives(r)
  <2>1. PICK n \in Name : Arrives(r, "login", n, None, FALSE)
    BY <1>3 DEF LoginArrives
  <2>2. TypeOK'
    BY <2>1 DEF TypeOK, Arrives, Step
  <2>3. LateIsOver'
    BY <2>1 DEF TypeOK, LateIsOver, Arrives
  <2> QED BY <1>1, <2>2, <2>3
<1>4. CASE GuardArrives(r)
  <2>1. PICK s \in Token : /\ session[s] # "none"
                           /\ Arrives(r, "guard", None, s, session[s] # "live")
    BY <1>4 DEF GuardArrives
  <2>2. s \in Nat
    BY DEF Token
  <2>3. TypeOK'
    BY <2>1, <2>2 DEF TypeOK, Arrives, Step
  <2>4. LateIsOver'
    BY <2>1 DEF TypeOK, LateIsOver, Arrives
  <2> QED BY <1>1, <2>3, <2>4
<1> QED BY <1>2, <1>3, <1>4

\* The steps of a setup.
LEMMA SetupKeeps ==
    ASSUME IInv, NEW r \in Request,
           SetupCounts(r) \/ SetupChecks(r) \/ SetupCreates(r) \/ SetupRetires(r)
    PROVE  IInv'
<1> USE AccountsAssumption, IdleType DEF IInv
<1>1. CASE SetupCounts(r)
  <2>1. TypeOK'
    <3>1. CASE Goes(r, "counted")
      <4>1. "counted" \in Step
        BY DEF Step
      <4>2. /\ req' \in [Request -> Handler] /\ req'[r].step = "counted"
            /\ req'[r].name = req[r].name /\ req'[r].token = req[r].token
            /\ \A o \in Request \ {r} : req'[o] = req[o]
        BY <3>1, <4>1, GoesType
      <4>3. Fits(r)'
        BY <4>2, <1>1 DEF TypeOK, Fits, SetupCounts, Ends, Idle
      <4> QED BY <4>2, <4>3, <1>1, OneSteps DEF TypeOK, SetupCounts
    <3>2. CASE Ends(r)
      BY <3>2, <1>1, EndsType, OneSteps DEF TypeOK, SetupCounts
    <3> QED BY <3>1, <3>2, <1>1 DEF SetupCounts
  <2>2. LateIsOver'
    BY <1>1 DEF TypeOK, LateIsOver, SetupCounts, Goes, Ends, Idle
  <2>3. NeverLockedOut'
    BY <1>1 DEF NeverLockedOut, SetupCounts
  <2> QED BY <2>1, <2>2, <2>3
<1>2. CASE SetupChecks(r)
  <2>1. TypeOK'
    <3>1. CASE Goes(r, "valid")
      <4>1. "valid" \in Step
        BY DEF Step
      <4>2. /\ req' \in [Request -> Handler] /\ req'[r].step = "valid"
            /\ req'[r].name = req[r].name /\ req'[r].token = req[r].token
            /\ \A o \in Request \ {r} : req'[o] = req[o]
        BY <3>1, <4>1, GoesType
      <4>3. Fits(r)'
        BY <4>2, <1>2 DEF TypeOK, Fits, SetupChecks, Ends, Idle
      <4> QED BY <4>2, <4>3, <1>2, OneSteps DEF TypeOK, SetupChecks
    <3>2. CASE Ends(r)
      BY <3>2, <1>2, EndsType, OneSteps DEF TypeOK, SetupChecks
    <3> QED BY <3>1, <3>2, <1>2 DEF SetupChecks
  <2>2. LateIsOver'
    BY <1>2 DEF TypeOK, LateIsOver, SetupChecks, Goes, Ends, Idle
  <2>3. NeverLockedOut'
    BY <1>2 DEF NeverLockedOut, SetupChecks
  <2> QED BY <2>1, <2>2, <2>3
<1>3. CASE SetupCreates(r)
  <2>1. TypeOK'
    <3>1. CASE Goes(r, "created")
      <4>1. "created" \in Step
        BY DEF Step
      <4>2. /\ req' \in [Request -> Handler] /\ req'[r].step = "created"
            /\ req'[r].name = req[r].name /\ req'[r].token = req[r].token
            /\ \A o \in Request \ {r} : req'[o] = req[o]
        BY <3>1, <4>1, GoesType
      <4>3. Fits(r)'
        BY <4>2, <1>3 DEF TypeOK, Fits, SetupCreates, Ends, Idle
      <4> QED BY <4>2, <4>3, <1>3, OneSteps DEF TypeOK, SetupCreates
    <3>2. CASE Ends(r)
      BY <3>2, <1>3, EndsType, OneSteps DEF TypeOK, SetupCreates
    <3> QED BY <3>1, <3>2, <1>3 DEF SetupCreates
  <2>2. LateIsOver'
    BY <1>3 DEF TypeOK, LateIsOver, SetupCreates, Goes, Ends, Idle
  <2>3. NeverLockedOut'
    BY <1>3 DEF NeverLockedOut, SetupCreates
  <2> QED BY <2>1, <2>2, <2>3
<1>4. CASE SetupRetires(r)
  <2>1. TypeOK'
    BY <1>4 DEF TypeOK, SetupRetires, Goes, Step
  <2>2. LateIsOver'
    BY <1>4 DEF TypeOK, LateIsOver, SetupRetires, Goes
  <2>3. NeverLockedOut'
    BY <1>4 DEF TypeOK, NeverLockedOut, SetupRetires
  <2> QED BY <2>1, <2>2, <2>3
<1> QED BY <1>1, <1>2, <1>3, <1>4

\* A login, and the session that it or a setup ends with.
LEMMA LoginKeeps ==
    ASSUME IInv, NEW r \in Request, LoginChecks(r) \/ NewSession(r) PROVE IInv'
<1> USE AccountsAssumption, IdleType DEF IInv
<1>1. CASE LoginChecks(r)
  <2>1. TypeOK'
    <3>1. CASE Goes(r, "known")
      <4>1. "known" \in Step
        BY DEF Step
      <4>2. /\ req' \in [Request -> Handler] /\ req'[r].step = "known"
            /\ req'[r].name = req[r].name /\ req'[r].token = req[r].token
            /\ \A o \in Request \ {r} : req'[o] = req[o]
        BY <3>1, <4>1, GoesType
      <4>3. Fits(r)'
        BY <4>2, <1>1 DEF TypeOK, Fits, LoginChecks, Ends, Idle
      <4> QED BY <4>2, <4>3, <1>1, OneSteps DEF TypeOK, LoginChecks
    <3>2. CASE Ends(r)
      BY <3>2, <1>1, EndsType, OneSteps DEF TypeOK, LoginChecks
    <3> QED BY <3>1, <3>2, <1>1 DEF LoginChecks
  <2>2. LateIsOver'
    BY <1>1 DEF TypeOK, LateIsOver, LoginChecks, Goes, Ends, Idle
  <2>3. NeverLockedOut'
    BY <1>1 DEF NeverLockedOut, LoginChecks
  <2> QED BY <2>1, <2>2, <2>3
<1>2. CASE NewSession(r)
  <2>1. TypeOK'
    BY <1>2 DEF TypeOK, NewSession, Ends, Step, Idle
  <2>2. LateIsOver'
    BY <1>2 DEF TypeOK, LateIsOver, NewSession, Ends, Idle
  <2>3. NeverLockedOut'
    BY <1>2 DEF NeverLockedOut, NewSession
  <2> QED BY <2>1, <2>2, <2>3
<1> QED BY <1>1, <1>2

\* A session that ends is over for whoever is late already.
LEMMA SessionKeeps ==
    ASSUME IInv, NEW s \in Token, Logout(s) \/ LogoutFails(s) \/ Expire(s) PROVE IInv'
<1> USE AccountsAssumption DEF IInv
<1>1. TypeOK'
  BY DEF TypeOK, Logout, LogoutFails, Upset, Expire
<1>2. LateIsOver'
  BY DEF TypeOK, LateIsOver, Logout, LogoutFails, Expire
<1>3. NeverLockedOut'
  BY DEF NeverLockedOut, Logout, LogoutFails, Expire
<1> QED BY <1>1, <1>2, <1>3

\* The guard reads the session, removes it or lets the request through.
LEMMA GuardKeeps ==
    ASSUME IInv, NEW r \in Request, GuardReads(r) \/ GuardSweeps(r) \/ GuardServes(r)
    PROVE  IInv'
<1> USE AccountsAssumption, IdleType DEF IInv
<1>1. CASE GuardReads(r)
  <2>1. TypeOK'
    <3>1. CASE Goes(r, "found")
      <4>1. "found" \in Step
        BY DEF Step
      <4>2. /\ req' \in [Request -> Handler] /\ req'[r].step = "found"
            /\ req'[r].name = req[r].name /\ req'[r].token = req[r].token
            /\ \A o \in Request \ {r} : req'[o] = req[o]
        BY <3>1, <4>1, GoesType
      <4>3. Fits(r)'
        BY <4>2, <1>1 DEF TypeOK, Fits, GuardReads, Ends, Idle
      <4> QED BY <4>2, <4>3, <1>1, OneSteps DEF TypeOK, GuardReads
    <3>2. CASE Goes(r, "stale")
      <4>1. "stale" \in Step
        BY DEF Step
      <4>2. /\ req' \in [Request -> Handler] /\ req'[r].step = "stale"
            /\ req'[r].name = req[r].name /\ req'[r].token = req[r].token
            /\ \A o \in Request \ {r} : req'[o] = req[o]
        BY <3>2, <4>1, GoesType
      <4>3. Fits(r)'
        BY <4>2, <1>1 DEF TypeOK, Fits, GuardReads, Ends, Idle
      <4> QED BY <4>2, <4>3, <1>1, OneSteps DEF TypeOK, GuardReads
    <3>3. CASE Ends(r)
      BY <3>3, <1>1, EndsType, OneSteps DEF TypeOK, GuardReads
    <3> QED BY <3>1, <3>2, <3>3, <1>1 DEF GuardReads
  <2>2. LateIsOver'
    BY <1>1 DEF TypeOK, LateIsOver, GuardReads, Goes, Ends, Idle
  <2>3. NeverLockedOut'
    BY <1>1 DEF NeverLockedOut, GuardReads
  <2> QED BY <2>1, <2>2, <2>3
<1>2. CASE GuardSweeps(r)
  <2>1. TypeOK'
    BY <1>2 DEF TypeOK, GuardSweeps, Ends, Step, Idle
  <2>2. LateIsOver'
    BY <1>2 DEF TypeOK, LateIsOver, GuardSweeps, Ends, Idle
  <2>3. NeverLockedOut'
    BY <1>2 DEF NeverLockedOut, GuardSweeps
  <2> QED BY <2>1, <2>2, <2>3
<1>3. CASE GuardServes(r)
  <2>1. TypeOK'
    BY <1>3 DEF TypeOK, GuardServes, Ends, Step, Idle
  <2>2. LateIsOver'
    BY <1>3 DEF TypeOK, LateIsOver, GuardServes, Ends, Idle
  <2>3. NeverLockedOut'
    BY <1>3 DEF NeverLockedOut, GuardServes
  <2> QED BY <2>1, <2>2, <2>3
<1> QED BY <1>1, <1>2, <1>3

\* A query that fails, maybe with an account made.
LEMMA FailureKeeps == ASSUME IInv, NEW r \in Request, Fails(r) PROVE IInv'
<1> USE AccountsAssumption, IdleType DEF IInv
<1>1. accounts \subseteq accounts' /\ accounts' \subseteq Name
  BY DEF TypeOK, Fails
<1>2. TypeOK'
  BY <1>1, EndsType DEF TypeOK, Fails, Upset, Handler
<1>3. LateIsOver'
  BY <1>1 DEF TypeOK, LateIsOver, Fails, Ends, Idle
<1>4. NeverLockedOut'
  BY <1>1 DEF NeverLockedOut, Fails
<1> QED BY <1>2, <1>3, <1>4

-----------------------------------------------------------------------------
\* The invariant holds of every behaviour of auth.Service behind its handlers.
THEOREM Invariance == Spec => []IInv
<1>1. Init => IInv
  <2> SUFFICES ASSUME Init PROVE IInv
    OBVIOUS
  <2> USE AccountsAssumption DEF Init
  <2>1. req \in [Request -> Handler] /\ \A r \in Request : req[r].step = "idle"
    BY IdleType
  <2>2. TypeOK
    BY <2>1 DEF TypeOK, Handler
  <2>3. LateIsOver
    BY <2>1 DEF LateIsOver
  <2>4. NeverLockedOut
    BY DEF NeverLockedOut
  <2> QED BY <2>2, <2>3, <2>4 DEF IInv
<1>2. IInv /\ [Next]_vars => IInv'
  <2> SUFFICES ASSUME IInv, [Next]_vars PROVE IInv'
    OBVIOUS
  <2>1. CASE UNCHANGED vars
    BY <2>1 DEF vars, IInv, TypeOK, NeverLockedOut, LateIsOver
  <2>2. CASE Start \/ Stop
    BY <2>2, StartKeeps, StopKeeps
  <2>3. ASSUME NEW r \in Request, Setup(r) PROVE IInv'
    BY <2>3, ArrivalKeeps, SetupKeeps DEF Setup
  <2>4. ASSUME NEW r \in Request, LoginArrives(r) \/ LoginChecks(r) \/ NewSession(r) PROVE IInv'
    BY <2>4, ArrivalKeeps, LoginKeeps
  <2>5. ASSUME NEW r \in Request, Guard(r) PROVE IInv'
    BY <2>5, ArrivalKeeps, GuardKeeps DEF Guard
  <2>6. ASSUME NEW r \in Request, Fails(r) PROVE IInv'
    BY <2>6, FailureKeeps
  <2>7. ASSUME NEW s \in Token, Logout(s) \/ LogoutFails(s) \/ Expire(s) PROVE IInv'
    BY <2>7, SessionKeeps
  <2> QED BY <2>1, <2>2, <2>3, <2>4, <2>5, <2>6, <2>7 DEF Next
<1> QED BY <1>1, <1>2, PTL DEF Spec

\* Types, and that a session is only made for a name in the table.
THEOREM TypeCorrect == Spec => []TypeOK
<1>1. IInv => TypeOK
  BY DEF IInv
<1> QED BY <1>1, Invariance, PTL

\* A running daemon has an account, or a setup token in force (Init, Setup).
THEOREM AlwaysAWayIn == Spec => []NeverLockedOut
<1>1. IInv => NeverLockedOut
  BY DEF IInv
<1> QED BY <1>1, Invariance, PTL

\* Who arrives at /setup when there is an account makes none.
THEOREM SetupIsOver == Spec => SetupCloses
<1>1. IInv /\ [Next]_vars => [\A r \in Request : Creates(r) => ~req[r].late]_vars
  BY DEF IInv, LateIsOver, Creates
<1> QED BY <1>1, Invariance, PTL DEF Spec, SetupCloses

\* Who arrives with a session whose row is gone or expired is not served
\* (requireAuth, Authenticate).
THEOREM RevokedIsRefused == Spec => RevokedStaysOut
<1>1. IInv /\ [Next]_vars => [\A r \in Request : Served(r) => ~req[r].late]_vars
  BY DEF IInv, LateIsOver, Served
<1> QED BY <1>1, Invariance, PTL DEF Spec, RevokedStaysOut
=============================================================================
