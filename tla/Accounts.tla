------------------------------ MODULE Accounts ------------------------------
(***************************************************************************)
(* Accounts and sessions: auth.Service over the tables of the database.    *)
(* A daemon that finds no account logs a setup token; the first account is *)
(* made with it; sessions are rows that logins add and that logouts, or    *)
(* requests that find them expired, delete.                                *)
(*                                                                         *)
(* A request is a handler on its own goroutine.  Every query is a step of  *)
(* its own, since nothing is locked from one to the next; s.mu covers      *)
(* single reads and writes of the token's hash.  Who presents a session    *)
(* token is left open: any request may present any token ever handed out.  *)
(* A wrong password is refused like an unknown name and is left out.       *)
(***************************************************************************)
EXTENDS Naturals, FiniteSets

CONSTANTS
    Request,        \* handlers that run at the same time
    Name,           \* user names
    None,
    MaxStarts,      \* bound: starts of the daemon
    MaxSessions,    \* bound: sessions made
    MaxUpsets       \* bound: queries that fail

ASSUME AccountsAssumption ==
    /\ None \notin Name /\ None \notin Nat
    /\ MaxStarts \in Nat /\ MaxSessions \in Nat /\ MaxUpsets \in Nat

VARIABLES
    up,         \* the daemon runs
    starts,     \* how often it was started; numbers the setup tokens
    armed,      \* bootstrapHash: the setup token in force, None for nil
    accounts,   \* the names in the accounts table
    session,    \* per session token: its row, "none" before and "deleted" after
    req,        \* the handlers
    upsets

vars == <<up, starts, armed, accounts, session, req, upsets>>

Token == 1 .. MaxSessions

Idle == [step |-> "idle", name |-> None, token |-> None, late |-> FALSE]

Init ==
    /\ up = FALSE /\ starts = 0 /\ armed = None
    /\ accounts = {}
    /\ session = [s \in Token |-> "none"]
    /\ req = [r \in Request |-> Idle]
    /\ upsets = 0

Upset == upsets < MaxUpsets /\ upsets' = upsets + 1

Goes(r, step) == req' = [req EXCEPT ![r].step = step]
Ends(r) == req' = [req EXCEPT ![r] = Idle]

\* Arriving requests; late says that what they ask for is over already.
Arrives(r, step, name, token, late) ==
    /\ up /\ req[r].step = "idle"
    /\ req' = [req EXCEPT ![r] =
                 [step |-> step, name |-> name, token |-> token, late |-> late]]
    /\ UNCHANGED <<up, starts, armed, accounts, session, upsets>>

-----------------------------------------------------------------------------
(* The daemon. *)

\* Service.Init: a new setup token for every start that finds no account.
Start ==
    /\ ~up /\ starts < MaxStarts
    /\ up' = TRUE /\ starts' = starts + 1
    /\ armed' = IF accounts = {} THEN starts + 1 ELSE None
    /\ UNCHANGED <<accounts, session, req, upsets>>

\* The daemon ends, whatever its handlers are doing.
Stop ==
    /\ up
    /\ up' = FALSE /\ armed' = None /\ req' = [r \in Request |-> Idle]
    /\ UNCHANGED <<starts, accounts, session, upsets>>

-----------------------------------------------------------------------------
(* POST /setup. *)

\* Somebody types a setup token found in the log, of this start or an earlier one.
SetupArrives(r) ==
    \E n \in Name, k \in 1 .. starts : Arrives(r, "setup", n, k, accounts # {})

\* Mutant: the token alone decides, accounts are not counted.
SetupUncounted(r) ==
    /\ req[r].step = "setup"
    /\ Goes(r, "counted")
    /\ UNCHANGED <<up, starts, armed, accounts, session, upsets>>

SetupCounts(r) ==
    /\ req[r].step = "setup"
    /\ IF accounts = {} THEN Goes(r, "counted") ELSE Ends(r)
    /\ UNCHANGED <<up, starts, armed, accounts, session, upsets>>

\* Mutant: the token is retired with its check, before there is an account.
SetupChecksAndRetires(r) ==
    /\ req[r].step = "counted"
    /\ IF armed = req[r].token THEN Goes(r, "valid") /\ armed' = None
                               ELSE Ends(r) /\ UNCHANGED armed
    /\ UNCHANGED <<up, starts, accounts, session, upsets>>

SetupChecks(r) ==
    /\ req[r].step = "counted"
    /\ IF armed = req[r].token THEN Goes(r, "valid") ELSE Ends(r)
    /\ UNCHANGED <<up, starts, armed, accounts, session, upsets>>

\* User names are unique in the table.
SetupCreates(r) ==
    /\ req[r].step = "valid"
    /\ accounts' = accounts \cup {req[r].name}
    /\ IF req[r].name \in accounts THEN Ends(r) ELSE Goes(r, "created")
    /\ UNCHANGED <<up, starts, armed, session, upsets>>

SetupRetires(r) ==
    /\ req[r].step = "created"
    /\ armed' = None
    /\ Goes(r, "known")
    /\ UNCHANGED <<up, starts, accounts, session, upsets>>

-----------------------------------------------------------------------------
(* POST /login, the session it ends with, and POST /logout. *)

LoginArrives(r) == \E n \in Name : Arrives(r, "login", n, None, FALSE)

\* Mutant: who is unknown gets a session all the same.
LoginUnchecked(r) ==
    /\ req[r].step = "login"
    /\ Goes(r, "known")
    /\ UNCHANGED <<up, starts, armed, accounts, session, upsets>>

LoginChecks(r) ==
    /\ req[r].step = "login"
    /\ IF req[r].name \in accounts THEN Goes(r, "known") ELSE Ends(r)
    /\ UNCHANGED <<up, starts, armed, accounts, session, upsets>>

\* A fresh random token, and its row.
NewSession(r) ==
    /\ req[r].step = "known"
    /\ \E s \in Token : session[s] = "none" /\ session' = [session EXCEPT ![s] = "live"]
    /\ Ends(r)
    /\ UNCHANGED <<up, starts, armed, accounts, upsets>>

\* One statement, by whoever presents the token; deleting no row is no error.
Logout(s) ==
    /\ up /\ session[s] \in {"live", "expired"}
    /\ session' = [session EXCEPT ![s] = "deleted"]
    /\ UNCHANGED <<up, starts, armed, accounts, req, upsets>>

\* The statement fails: the handler drops the error, takes the cookie back and
\* answers as if the session were over, which goes on.
LogoutFails(s) ==
    /\ up /\ session[s] \in {"live", "expired"} /\ Upset
    /\ UNCHANGED <<up, starts, armed, accounts, session, req>>

\* A week goes by.
Expire(s) ==
    /\ session[s] = "live"
    /\ session' = [session EXCEPT ![s] = "expired"]
    /\ UNCHANGED <<up, starts, armed, accounts, req, upsets>>

-----------------------------------------------------------------------------
(* requireAuth, in front of every other handler. *)

GuardArrives(r) ==
    \E s \in Token :
        session[s] # "none" /\ Arrives(r, "guard", None, s, session[s] # "live")

\* Mutant: any session found is good.
GuardReadsOnly(r) ==
    /\ req[r].step = "guard"
    /\ IF session[req[r].token] = "deleted" THEN Ends(r) ELSE Goes(r, "found")
    /\ UNCHANGED <<up, starts, armed, accounts, session, upsets>>

\* The row is read, and then its expiry compared with the clock.
GuardReads(r) ==
    /\ req[r].step = "guard"
    /\ CASE session[req[r].token] = "live" -> Goes(r, "found")
         [] session[req[r].token] = "expired" -> Goes(r, "stale")
         [] OTHER -> Ends(r)
    /\ UNCHANGED <<up, starts, armed, accounts, session, upsets>>

\* An expired session is deleted, and the request refused.
GuardSweeps(r) ==
    /\ req[r].step = "stale"
    /\ session' = [session EXCEPT ![req[r].token] = "deleted"]
    /\ Ends(r)
    /\ UNCHANGED <<up, starts, armed, accounts, upsets>>

\* The account is read and the handler behind the guard is called.
GuardServes(r) ==
    /\ req[r].step = "found"
    /\ Ends(r)
    /\ UNCHANGED <<up, starts, armed, accounts, session, upsets>>

\* A query fails, and with it the request.  CreateAccount reads back what it
\* has inserted: it may fail when the account is there already, and the setup
\* token is then not retired.
Fails(r) ==
    /\ req[r].step # "idle"
    /\ Upset
    /\ \/ UNCHANGED accounts
       \/ req[r].step = "valid" /\ accounts' = accounts \cup {req[r].name}
    /\ Ends(r)
    /\ UNCHANGED <<up, starts, armed, session>>

Setup(r) ==
    SetupArrives(r) \/ SetupCounts(r) \/ SetupChecks(r) \/ SetupCreates(r) \/ SetupRetires(r)

Guard(r) == GuardArrives(r) \/ GuardReads(r) \/ GuardSweeps(r) \/ GuardServes(r)

Next ==
    \/ Start \/ Stop
    \/ \E r \in Request :
          Setup(r) \/ LoginArrives(r) \/ LoginChecks(r) \/ NewSession(r) \/ Guard(r) \/ Fails(r)
    \/ \E s \in Token : Logout(s) \/ LogoutFails(s) \/ Expire(s)

Spec == Init /\ [][Next]_vars

-----------------------------------------------------------------------------
Step == {"idle", "setup", "counted", "valid", "created",
         "login", "known", "guard", "found", "stale"}

\* Types; handlers run only in a daemon that is up, on names and tokens that
\* their steps need, and a session is only made for a name in the table.
TypeOK ==
    /\ up \in BOOLEAN
    /\ starts \in Nat
    /\ armed \in Nat \cup {None}
    /\ accounts \subseteq Name
    /\ session \in [Token -> {"none", "live", "expired", "deleted"}]
    /\ req \in [Request -> [step : Step, name : Name \cup {None},
                            token : Nat \cup {None}, late : BOOLEAN]]
    /\ \A r \in Request :
          /\ req[r].step # "idle" => up
          /\ req[r].step \in {"setup", "counted", "valid", "login"} => req[r].name \in Name
          /\ req[r].step \in {"created", "known"} => req[r].name \in accounts
          /\ req[r].step \in {"guard", "found", "stale"} => req[r].token \in Token
    /\ upsets \in Nat

\* A running daemon can always be got into: there is an account to log in with,
\* or a setup token in force, whatever setup failed halfway (Setup retires the
\* token only when the account is there, and Init makes a new one).
NeverLockedOut == up => accounts # {} \/ armed # None

Creates(r) == req[r].step = "valid" /\ req'[r] # req[r] /\ accounts' # accounts

\* Setup is closed for good by the first account, across restarts and although
\* the token may still be in force after a failure: a request that arrives when
\* there is an account makes none.  (Those that overlap the first may.)
SetupCloses == [][\A r \in Request : Creates(r) => ~req[r].late]_vars

Served(r) == req[r].step = "found" /\ req'[r] # req[r] /\ upsets' = upsets /\ up'

\* No request is served that came when its session was deleted or expired: the
\* row is read again for every request, and nothing brings a session back, no
\* restart and no request that has it in hand.  (One that has read the row before
\* is still served, and so is a session whose logout failed: the answer to that
\* logout says nothing of the row.)
RevokedStaysOut == [][\A r \in Request : Served(r) => ~req[r].late]_vars
=============================================================================
