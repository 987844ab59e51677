------------------------------ MODULE Settings ------------------------------
(***************************************************************************)
(* The settings edited in the web UI: one row of the database, whose       *)
(* secrets are sealed under a key that comes from the environment or from  *)
(* a file.  A page loads a form in which the secrets are masked, and saves *)
(* all of it; the handler of the save reads the row, puts the secrets that *)
(* were left empty back in, and writes the row.  Nothing is locked between *)
(* the read and the write.  The database writes through to the disk with   *)
(* every commit; the key file is left to the operating system to write.    *)
(*                                                                         *)
(* Of the fields that are not secret, one value stands for all of them.    *)
(* What the loop makes of the settings is part of Engine and of Checkout.  *)
(***************************************************************************)
EXTENDS Naturals, FiniteSets

CONSTANTS
    Tab,            \* browser tabs with the settings page open
    Key,            \* encryption keys; a fresh one is one never seen before
    EnvKey,         \* those an operator may put into the environment
    Plain,          \* the fields that are not secret, the required ones filled
    Blank,          \* the same with a required one left empty
    Secret,         \* values of the token secret and of the Git token
    Empty,          \* the empty string
    Untouched,      \* a field of the form that the user leaves as it is
    Edit,           \* what users type into the form
    Broken,         \* a key file whose writing was cut short
    None,
    MaxSaves,       \* bound: saves asked for
    MaxUpsets       \* bound: crashes, failed queries, changes of the key

Content ==
    [plain : Plain \cup {Blank}, secret : Secret \cup {Empty}, git : Secret \cup {Empty}]

ASSUME SettingsAssumption ==
    /\ EnvKey \subseteq Key
    /\ Blank \notin Plain /\ Empty \notin Secret
    /\ Untouched \notin Plain \cup {Blank}
    /\ None \notin Key /\ Broken \notin Key /\ None # Broken
    /\ None \notin Content
    /\ None \notin [plain : Plain, secret : [key : Key, text : Secret],
                    git : [key : Key, text : Secret] \cup {Empty}]
    /\ Empty \notin [key : Key, text : Secret]
    /\ Edit \subseteq [plain : Plain \cup {Blank, Untouched},
                       secret : Secret \cup {Empty}, git : Secret \cup {Empty}]
    /\ MaxSaves \in Nat /\ MaxUpsets \in Nat

VARIABLES
    row,        \* the settings row, None before the first save
    keyFile,    \* the key file: None, Broken, or the key in it
    flushed,    \* the key file is on the disk, and not in a cache only
    env,        \* the key in the environment, None if it is not set
    key,        \* the key of the running daemon, None when it is down
    minted,     \* keys ever generated
    form,       \* what each page shows
    put,        \* the save each page waits for: its step, the edit, what it has read
    overtaken,  \* since when other pages' saves came before each page's own
    touched,    \* an operator changed the key file or the environment
    lost,       \* the machine went down before the key of what is stored was flushed
    spent       \* how much of each bound is used

keyVars == <<keyFile, flushed, env, key, minted, touched, lost>>
pageVars == <<form, put, overtaken>>
vars == <<row, keyVars, pageVars, spent>>

Spend(what) == spent[what] < (IF what = "saves" THEN MaxSaves ELSE MaxUpsets)
               /\ spent' = [spent EXCEPT ![what] = @ + 1]

-----------------------------------------------------------------------------
(* Sealing, and the row as Get returns it. *)

Seal(k, s) == IF s = Empty THEN Empty ELSE [key |-> k, text |-> s]
Opens(k, b) == b # Empty => b.key = k
Opened(b) == IF b = Empty THEN Empty ELSE b.text

Sealed(k, c) == [plain |-> c.plain, secret |-> Seal(k, c.secret), git |-> Seal(k, c.git)]

\* Settings{}, which goes with ErrNotConfigured.
Zero == [plain |-> Blank, secret |-> Empty, git |-> Empty]

\* One secret that does not open fails the whole read.
Readable == row # None => Opens(key, row.secret) /\ Opens(key, row.git)

Stored ==
    IF row = None THEN Zero
    ELSE [plain |-> row.plain, secret |-> Opened(row.secret), git |-> Opened(row.git)]

\* The interval is never in the way: Duration makes it positive.
Valid(c) == c.plain # Blank /\ c.secret # Empty

\* What a page is told: of the secrets, only whether they are set.
Masked(c) == [plain |-> c.plain, secretSet |-> c.secret # Empty, gitSet |-> c.git # Empty]

\* Mutant: a secret left empty is saved empty.
MergedAsSent(shown, e, current) ==
    [plain |-> IF e.plain = Untouched THEN shown.plain ELSE e.plain,
     secret |-> IF e.secret = Empty THEN current.secret ELSE e.secret,
     git |-> e.git]

\* The form as sent, with the secrets of current where it leaves them empty.
Merged(shown, e, current) ==
    [plain |-> IF e.plain = Untouched THEN shown.plain ELSE e.plain,
     secret |-> IF e.secret = Empty THEN current.secret ELSE e.secret,
     git |-> IF e.git = Empty THEN current.git ELSE e.git]

Idle == [step |-> "idle", edit |-> None, current |-> None]

Init ==
    /\ row = None /\ keyFile = None /\ flushed = TRUE /\ key = None /\ minted = {}
    /\ touched = FALSE /\ lost = FALSE
    /\ env \in EnvKey \cup {None}
    /\ form = [t \in Tab |-> Masked(Zero)]
    /\ put = [t \in Tab |-> Idle]
    /\ overtaken = [t \in Tab |-> "form"]
    /\ spent = [saves |-> 0, upsets |-> 0]

-----------------------------------------------------------------------------
(* The key: LoadOrCreateKey at the start of the daemon. *)

StartFromEnv == env # None /\ key' = env /\ UNCHANGED <<keyFile, flushed, minted>>

StartFromFile ==
    env = None /\ keyFile \in Key /\ key' = keyFile /\ UNCHANGED <<keyFile, flushed, minted>>

\* Mutant: the new key is used, but its file could not be written.
StartUnwritten ==
    /\ env = None /\ keyFile = None
    /\ \E k \in Key \ (minted \cup EnvKey) : key' = k /\ minted' = minted \cup {k}
    /\ UNCHANGED <<keyFile, flushed>>

\* The new key is in its file before it is used, but the file is not synced.
StartFresh ==
    /\ env = None /\ keyFile = None
    /\ \E k \in Key \ (minted \cup EnvKey) :
          key' = k /\ keyFile' = k /\ minted' = minted \cup {k}
    /\ flushed' = FALSE

\* A file that does not hold a key keeps the daemon from starting.
Start ==
    /\ key = None
    /\ StartFromEnv \/ StartFromFile \/ StartFresh
    /\ UNCHANGED <<row, env, touched, lost, pageVars, spent>>

\* The operating system writes the key file to the disk.
Flush ==
    /\ ~flushed /\ flushed' = TRUE
    /\ UNCHANGED <<row, keyFile, env, key, minted, touched, lost, pageVars, spent>>

\* The daemon dies while it writes the key file, which is not replaced atomically.
CutShort ==
    /\ key = None /\ env = None /\ keyFile = None
    /\ keyFile' = Broken
    /\ Spend("upsets")
    /\ UNCHANGED <<row, flushed, env, key, minted, touched, lost, pageVars>>

\* The daemon ends, by a signal or otherwise; the pages stay open.
Stop ==
    /\ key # None
    /\ key' = None
    /\ put' = [t \in Tab |-> Idle]
    /\ Spend("upsets")
    /\ UNCHANGED <<row, keyFile, flushed, env, minted, touched, lost, form, overtaken>>

\* The machine goes down: a key file that is not on the disk may be gone after it,
\* or be cut short, but nothing that was committed to the database.
MachineStops ==
    /\ key # None \/ ~flushed
    /\ key' = None
    /\ put' = [t \in Tab |-> Idle]
    /\ keyFile' \in {keyFile} \cup (IF flushed THEN {} ELSE {None, Broken})
    /\ lost' = (lost \/ (row # None /\ keyFile' # keyFile))
    /\ flushed' = TRUE
    /\ Spend("upsets")
    /\ UNCHANGED <<row, env, minted, touched, form, overtaken>>

\* An operator loses, restores or replaces the key; a running daemon has read it.
Rekey ==
    /\ \/ keyFile' \in {None} \cup minted /\ UNCHANGED env
       \/ env' \in EnvKey \cup {None} /\ UNCHANGED keyFile
    /\ touched' = TRUE
    /\ Spend("upsets")
    /\ UNCHANGED <<row, flushed, key, minted, lost, pageVars>>

-----------------------------------------------------------------------------
(* The page and the handlers of its requests. *)

\* GET /settings, when the page is opened; a failure leaves the form as it is.
Load(t) ==
    /\ key # None /\ put[t].step = "idle" /\ Readable
    /\ form' = [form EXCEPT ![t] = Masked(Stored)]
    /\ overtaken' = [overtaken EXCEPT ![t] = "no"]
    /\ UNCHANGED <<row, keyVars, put, spent>>

Save(t) ==
    /\ key # None /\ put[t].step = "idle"
    /\ \E e \in Edit : put' = [put EXCEPT ![t] = [step |-> "sent", edit |-> e, current |-> None]]
    /\ Spend("saves")
    /\ UNCHANGED <<row, keyVars, form, overtaken>>

\* From here on, only a save between the read and the write is in the way.
ReadAfresh(t) ==
    overtaken' = [overtaken EXCEPT ![t] = IF @ = "request" THEN "form" ELSE @]

\* Mutant: whatever cannot be read is taken for not configured.
PutReadsAnything(t) ==
    /\ put[t].step = "sent"
    /\ put' = [put EXCEPT ![t].step = "read", ![t].current = IF Readable THEN Stored ELSE Zero]
    /\ ReadAfresh(t)
    /\ UNCHANGED <<row, keyVars, form, spent>>

\* The handler reads the row.  What is not configured yet reads as Zero;
\* any other error ends the request.
PutReads(t) ==
    /\ put[t].step = "sent"
    /\ put' = IF Readable
              THEN [put EXCEPT ![t] = [@ EXCEPT !.step = "read", !.current = Stored]]
              ELSE [put EXCEPT ![t] = Idle]
    /\ ReadAfresh(t)
    /\ UNCHANGED <<row, keyVars, form, spent>>

Proposed(t) == Merged(form[t], put[t].edit, put[t].current)

\* Settings that do not validate are not stored.
PutRejected(t) ==
    /\ put[t].step = "read" /\ ~Valid(Proposed(t))
    /\ put' = [put EXCEPT ![t] = Idle]
    /\ UNCHANGED <<row, keyVars, form, overtaken, spent>>

\* How far back a save by another page reaches into what a page is doing.
Passed(t) ==
    [o \in Tab |-> IF o = t THEN "no"
                   ELSE IF put[o].step = "read" \/ overtaken[o] = "request" THEN "request"
                   ELSE "form"]

\* Mutant: the settings are stored without being validated.
PutSavesUnchecked(t) ==
    /\ put[t].step = "read"
    /\ row' = Sealed(key, Proposed(t))
    /\ form' = [form EXCEPT ![t] = Masked(Proposed(t))]
    /\ overtaken' = Passed(t)
    /\ put' = [put EXCEPT ![t] = Idle]
    /\ UNCHANGED <<keyVars, spent>>

\* Valid settings replace the row in one statement, and the page shows them.
PutSaves(t) ==
    /\ put[t].step = "read" /\ Valid(Proposed(t))
    /\ row' = Sealed(key, Proposed(t))
    /\ form' = [form EXCEPT ![t] = Masked(Proposed(t))]
    /\ overtaken' = Passed(t)
    /\ put' = [put EXCEPT ![t] = Idle]
    /\ UNCHANGED <<keyVars, spent>>

\* A query fails, or the connection to the page does: the request ends without
\* a save, or after one the page does not hear of.
PutFails(t) ==
    /\ put[t].step \in {"sent", "read"}
    /\ \/ UNCHANGED <<row, overtaken>>
       \/ /\ put[t].step = "read" /\ Valid(Proposed(t))
          /\ row' = Sealed(key, Proposed(t))
          /\ overtaken' = [Passed(t) EXCEPT ![t] = "form"]
    /\ put' = [put EXCEPT ![t] = Idle]
    /\ Spend("upsets")
    /\ UNCHANGED <<keyVars, form>>

Next ==
    \/ Start \/ Flush \/ CutShort \/ Stop \/ MachineStops \/ Rekey
    \/ \E t \in Tab :
          Load(t) \/ Save(t) \/ PutReads(t) \/ PutRejected(t) \/ PutSaves(t) \/ PutFails(t)

Spec == Init /\ [][Next]_vars

-----------------------------------------------------------------------------
SealedSecret == [key : Key, text : Secret]
Row == [plain : Plain, secret : SealedSecret, git : SealedSecret \cup {Empty}]

\* What is stored is always complete: a required field and the token secret are
\* filled, and sealed (Save validates before it encrypts and writes).
TypeOK ==
    /\ row \in Row \cup {None}
    /\ keyFile \in Key \cup {None, Broken}
    /\ env \in EnvKey \cup {None}
    /\ key \in Key \cup {None}
    /\ minted \subseteq Key
    /\ form \in [Tab -> [plain : Plain \cup {Blank}, secretSet : BOOLEAN, gitSet : BOOLEAN]]
    /\ put \in [Tab -> [step : {"idle", "sent", "read"},
                        edit : Edit \cup {None}, current : Content \cup {None}]]
    /\ \A t \in Tab : /\ put[t].step # "idle" => put[t].edit \in Edit /\ key # None
                      /\ put[t].step = "read" => put[t].current \in Content
    /\ overtaken \in [Tab -> {"no", "form", "request"}]
    /\ flushed \in BOOLEAN /\ touched \in BOOLEAN /\ lost \in BOOLEAN
    /\ spent \in [saves : Nat, upsets : Nat]

SealedUnder(k) ==
    /\ row.secret.key = k
    /\ row.git # Empty => row.git.key = k

\* The stored secrets are sealed under the key that the next start will find,
\* whichever way the daemon ended or a start was cut short, unless an operator
\* changed the key or the machine went down before the file of that key was on
\* the disk: generateKeyFile does not sync it, and the row may get there first.
SurvivesRestart ==
    ~touched /\ ~lost /\ row # None => SealedUnder(IF env # None THEN env ELSE keyFile)

\* Secrets that cannot be read are never overwritten, whatever is saved: with
\* the key they were sealed under they can be read again (handlePutSettings
\* gives up on any error but ErrNotConfigured).
UnreadableIsKept == [][row' # row => Readable]_vars

Saved(t) == put[t].step = "read" /\ put'[t].step = "idle" /\ row' # row

Kept(typed, before, after) == after = IF typed = Empty THEN before ELSE typed

\* A save leaves what its page left empty or untouched as the page showed it,
\* if no other save came after the page loaded its form; if one did, but before
\* the request read the row, the secrets left empty are still the stored ones,
\* while the other fields are put back as the form has them.  Of a save that falls
\* between the read and the write of another nothing is promised: it is undone.
SavesWhatItShows ==
    [][\A t \in Tab : Saved(t) /\ overtaken[t] # "request" =>
          LET e == put[t].edit
          IN /\ Kept(e.secret, Stored.secret, Stored'.secret)
             /\ Kept(e.git, Stored.git, Stored'.git)
             /\ overtaken[t] = "no" =>
                  Stored'.plain = IF e.plain = Untouched THEN Stored.plain ELSE e.plain]_vars
=============================================================================
