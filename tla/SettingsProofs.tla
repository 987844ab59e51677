--------------------------- MODULE SettingsProofs ---------------------------
(***************************************************************************)
(* Theorems about the stored settings, for any pages, keys, edits and      *)
(* bounds.  The invariant adds to the types how the key of the running     *)
(* daemon, the key a start would find and the stored row belong together.  *)
(***************************************************************************)
EXTENDS Settings, TLAPS

Found == IF env # None THEN env ELSE keyFile

\* The running daemon uses the key a start would find, unless it was changed.
KeyIsFound == ~touched /\ key # None => key = Found

\* What a save has read can be read as long as the save goes on.
StaysReadable == \A t \in Tab : put[t].step = "read" => Readable

IInv == TypeOK /\ SurvivesRestart /\ KeyIsFound /\ StaysReadable

Shape == [plain : Plain \cup {Blank}, secretSet : BOOLEAN, gitSet : BOOLEAN]
Request ==
    [step : {"idle", "sent", "read"}, edit : Edit \cup {None}, current : Content \cup {None}]

-----------------------------------------------------------------------------
(* Sealing and opening. *)

\* What Decrypt returns of a stored row is the content of settings.
LEMMA StoredType == ASSUME row \in Row \cup {None} PROVE Stored \in Content
<1>1. CASE row = None
  BY <1>1 DEF Stored, Zero, Content
<1>2. CASE row # None
  <2>1. row \in Row
    BY <1>2
  <2>2. row.plain \in Plain /\ row.secret \in SealedSecret /\ row.git \in SealedSecret \cup {Empty}
    BY <2>1 DEF Row
  <2>3. Opened(row.secret) \in Secret \cup {Empty} /\ Opened(row.git) \in Secret \cup {Empty}
    BY <2>2 DEF Opened, SealedSecret
  <2> QED BY <1>2, <2>2, <2>3 DEF Stored, Content
<1> QED BY <1>1, <1>2

\* The edit of a page, put together with what its handler has read.
LEMMA ProposedType ==
    ASSUME TypeOK, NEW t \in Tab, put[t].step = "read" PROVE Proposed(t) \in Content
<1>1. put[t].edit \in Edit /\ put[t].current \in Content /\ form[t] \in Shape
  BY DEF TypeOK, Shape
<1>2. put[t].edit \in [plain : Plain \cup {Blank, Untouched},
                       secret : Secret \cup {Empty}, git : Secret \cup {Empty}]
  BY <1>1, SettingsAssumption
<1> QED BY <1>1, <1>2 DEF Proposed, Merged, Content, Shape

\* Valid settings are stored complete, and everything in the row opens under
\* the key it was sealed with, and under no other one.
LEMMA SealedType ==
    ASSUME NEW k \in Key, NEW c \in Content, Valid(c)
    PROVE  /\ Sealed(k, c) \in Row /\ Sealed(k, c) # None
           /\ Sealed(k, c).secret.key = k
           /\ Sealed(k, c).git # Empty => Sealed(k, c).git.key = k
<1>1. c.plain \in Plain /\ c.secret \in Secret /\ c.git \in Secret \cup {Empty}
  BY DEF Content, Valid
<1>2. /\ Seal(k, c.secret) \in SealedSecret /\ Seal(k, c.secret).key = k
      /\ Seal(k, c.git) \in SealedSecret \cup {Empty}
      /\ Seal(k, c.git) # Empty => Seal(k, c.git).key = k
  BY <1>1, SettingsAssumption DEF Seal, SealedSecret
<1>3. Sealed(k, c) \in Row
  BY <1>1, <1>2 DEF Sealed, Row
<1>4. None \notin Row
  BY SettingsAssumption DEF Row, SealedSecret
<1> QED BY <1>2, <1>3, <1>4 DEF Sealed

\* What a page is told has the shape of a form.
LEMMA MaskedType == ASSUME NEW c \in Content PROVE Masked(c) \in Shape
BY DEF Masked, Shape, Content

LEMMA IdleType == Idle \in Request /\ Idle.step = "idle"
BY DEF Idle, Request

LEMMA ZeroType == Zero \in Content
BY DEF Zero, Content

-----------------------------------------------------------------------------
(* The daemon and its key. *)

\* A start finds the key that what is stored was sealed under: the file is
\* missing only while nothing is stored, or after somebody removed it.
LEMMA StartKeeps == ASSUME IInv, Start PROVE IInv'
<1> USE SettingsAssumption DEF IInv
<1>1. /\ key = None /\ UNCHANGED <<row, env, touched, lost, form, put, overtaken, spent>>
  BY DEF Start, pageVars
<1>2. \A t \in Tab : put[t].step = "idle"
  BY <1>1 DEF TypeOK
<1>3. /\ key' \in Key /\ keyFile' \in Key \cup {None, Broken} /\ minted' \subseteq Key
      /\ flushed' \in BOOLEAN /\ key' = Found'
      /\ keyFile' = keyFile \/ (env = None /\ keyFile = None)
  BY <1>1 DEF Start, StartFromEnv, StartFromFile, StartFresh, TypeOK, Found
<1>4. TypeOK'
  BY <1>1, <1>2, <1>3 DEF TypeOK
<1>5. SurvivesRestart'
  <2>1. ASSUME ~touched, ~lost, row # None, env = None, keyFile = None PROVE FALSE
    <3>1. row.secret.key = None /\ row.secret \in SealedSecret
      BY <2>1 DEF SurvivesRestart, SealedUnder, TypeOK, Row
    <3> QED BY <3>1 DEF SealedSecret
  <2> QED BY <1>1, <1>3, <2>1 DEF SurvivesRestart, SealedUnder
<1>6. KeyIsFound' /\ StaysReadable'
  BY <1>1, <1>2, <1>3 DEF KeyIsFound, StaysReadable
<1> QED BY <1>4, <1>5, <1>6

\* A file cut short is written when there is none, so that nothing is stored.
LEMMA CutShortKeeps == ASSUME IInv, CutShort PROVE IInv'
<1> USE SettingsAssumption DEF IInv
<1>1. /\ key = None /\ env = None /\ keyFile = None /\ keyFile' = Broken
      /\ UNCHANGED <<row, flushed, env, key, minted, touched, lost, form, put, overtaken>>
      /\ spent' \in [saves : Nat, upsets : Nat]
  BY DEF CutShort, pageVars, Spend, TypeOK
<1>2. TypeOK'
  BY <1>1 DEF TypeOK
<1>3. SurvivesRestart'
  <2>1. ASSUME ~touched, ~lost, row # None PROVE FALSE
    <3>1. row.secret.key = None /\ row.secret \in SealedSecret
      BY <1>1, <2>1 DEF SurvivesRestart, SealedUnder, TypeOK, Row
    <3> QED BY <3>1 DEF SealedSecret
  <2> QED BY <1>1, <2>1 DEF SurvivesRestart, SealedUnder
<1>4. KeyIsFound' /\ StaysReadable'
  BY <1>1 DEF KeyIsFound, StaysReadable, Readable, Opens
<1> QED BY <1>2, <1>3, <1>4

\* With the daemon, everything that was being saved ends.
LEMMA StopKeeps == ASSUME IInv, Stop PROVE IInv'
<1> USE SettingsAssumption DEF IInv
<1>1. /\ key' = None /\ put' = [t \in Tab |-> Idle]
      /\ UNCHANGED <<row, keyFile, flushed, env, minted, touched, lost, form, overtaken>>
      /\ spent' \in [saves : Nat, upsets : Nat]
  BY DEF Stop, Spend, TypeOK
<1>2. put' \in [Tab -> Request] /\ \A t \in Tab : put'[t].step = "idle"
  BY <1>1, IdleType
<1>3. TypeOK'
  BY <1>1, <1>2 DEF TypeOK, Request
<1>4. SurvivesRestart'
  BY <1>1 DEF SurvivesRestart, SealedUnder
<1>5. KeyIsFound' /\ StaysReadable'
  BY <1>1, <1>2 DEF KeyIsFound, StaysReadable
<1> QED BY <1>3, <1>4, <1>5

\* What the operating system writes back changes no key.
LEMMA FlushKeeps == ASSUME IInv, Flush PROVE IInv'
<1>1. flushed' = TRUE
      /\ UNCHANGED <<row, keyFile, env, key, minted, touched, lost, form, put, overtaken, spent>>
  BY DEF Flush, pageVars
<1> QED BY <1>1 DEF IInv, TypeOK, SurvivesRestart, SealedUnder, KeyIsFound, Found,
                    StaysReadable, Readable, Opens

\* A key file that is lost with the machine is one that nothing is stored under, or
\* it is remembered as lost.
LEMMA MachineKeeps == ASSUME IInv, MachineStops PROVE IInv'
<1> USE SettingsAssumption DEF IInv
<1>1. /\ key' = None /\ put' = [t \in Tab |-> Idle] /\ flushed' = TRUE
      /\ UNCHANGED <<row, env, minted, touched, form, overtaken>>
      /\ keyFile' \in Key \cup {None, Broken}
      /\ lost' = (lost \/ (row # None /\ keyFile' # keyFile))
      /\ spent' \in [saves : Nat, upsets : Nat]
  BY DEF MachineStops, Spend, TypeOK
<1>2. put' \in [Tab -> Request] /\ \A t \in Tab : put'[t].step = "idle"
  BY <1>1, IdleType
<1>3. lost' \in BOOLEAN
  BY <1>1 DEF TypeOK
<1>4. TypeOK'
  BY <1>1, <1>2, <1>3 DEF TypeOK, Request
<1>5. SurvivesRestart'
  BY <1>1 DEF SurvivesRestart, SealedUnder
<1>6. KeyIsFound' /\ StaysReadable'
  BY <1>1, <1>2 DEF KeyIsFound, StaysReadable
<1> QED BY <1>4, <1>5, <1>6

\* From a change of the key on, nothing is promised of restarts.
LEMMA RekeyKeeps == ASSUME IInv, Rekey PROVE IInv'
<1> USE SettingsAssumption DEF IInv
<1>1. /\ touched' = TRUE /\ keyFile' \in Key \cup {None, Broken} /\ env' \in EnvKey \cup {None}
      /\ UNCHANGED <<row, flushed, key, minted, lost, form, put, overtaken>>
      /\ spent' \in [saves : Nat, upsets : Nat]
  BY DEF Rekey, pageVars, Spend, TypeOK
<1>2. TypeOK'
  BY <1>1 DEF TypeOK
<1>3. SurvivesRestart' /\ KeyIsFound'
  BY <1>1 DEF SurvivesRestart, KeyIsFound
<1>4. StaysReadable'
  BY <1>1 DEF StaysReadable, Readable, Opens
<1> QED BY <1>2, <1>3, <1>4

-----------------------------------------------------------------------------
(* The pages, their requests and the loop. *)

\* Whatever leaves the row and the keys alone has only the saves to answer for.
LEMMA RowStays ==
    ASSUME IInv, UNCHANGED <<row, keyVars>>, TypeOK',
           \A t \in Tab : put'[t].step = "read" => put[t].step = "read" \/ Readable
    PROVE  IInv'
<1>1. SurvivesRestart' /\ KeyIsFound'
  BY DEF IInv, keyVars, SurvivesRestart, SealedUnder, KeyIsFound, Found
<1>2. Readable' = Readable
  BY DEF keyVars, Readable, Opens
<1>3. StaysReadable'
  BY <1>2 DEF IInv, StaysReadable
<1> QED BY <1>1, <1>3 DEF IInv

\* Opening the page, and asking for a save.
LEMMA FormKeeps ==
    ASSUME IInv, NEW t \in Tab, Load(t) \/ Save(t) PROVE IInv'
<1> USE SettingsAssumption DEF IInv
<1>1. CASE Load(t)
  <2>1. Masked(Stored) \in Shape
    BY StoredType, MaskedType DEF TypeOK
  <2>2. /\ form' \in [Tab -> Shape] /\ overtaken' \in [Tab -> {"no", "form", "request"}]
        /\ UNCHANGED <<row, keyFile, flushed, env, key, minted, touched, lost, put, spent>>
    BY <1>1, <2>1 DEF Load, TypeOK, Shape, keyVars
  <2>3. TypeOK'
    BY <2>2 DEF TypeOK, Shape
  <2> QED BY <1>1, <2>2, <2>3, RowStays DEF Load
<1>2. CASE Save(t)
  <2>1. PICK e \in Edit :
          put' = [put EXCEPT ![t] = [step |-> "sent", edit |-> e, current |-> None]]
    BY <1>2 DEF Save
  <2>2. /\ put' \in [Tab -> Request] /\ put'[t].step = "sent" /\ put'[t].edit \in Edit
        /\ \A o \in Tab \ {t} : put'[o] = put[o]
    BY <2>1 DEF TypeOK, Request
  <2>3. /\ UNCHANGED <<row, keyFile, flushed, env, key, minted, touched, lost, form, overtaken>>
        /\ key # None /\ spent' \in [saves : Nat, upsets : Nat]
    BY <1>2 DEF Save, Spend, TypeOK, keyVars
  <2>4. TypeOK'
    BY <2>2, <2>3 DEF TypeOK, Request
  <2> QED BY <1>2, <2>2, <2>4, RowStays DEF Save
<1> QED BY <1>1, <1>2

\* A request that ends, in the step of its page or by failing.
LEMMA EndsType ==
    ASSUME TypeOK, NEW t \in Tab, put' = [put EXCEPT ![t] = Idle]
    PROVE  /\ put' \in [Tab -> Request] /\ put'[t].step = "idle"
           /\ \A o \in Tab \ {t} : put'[o] = put[o]
<1>1. put \in [Tab -> Request]
  BY DEF TypeOK, Request
<1> QED BY <1>1, IdleType

\* A save reads only what can be read.
LEMMA ReadKeeps == ASSUME IInv, NEW t \in Tab, PutReads(t) PROVE IInv'
<1> USE SettingsAssumption DEF IInv
<1>1. /\ UNCHANGED <<row, keyFile, flushed, env, key, minted, touched, lost, form, spent>>
      /\ put[t].step = "sent"
      /\ overtaken' \in [Tab -> {"no", "form", "request"}]
  BY DEF PutReads, ReadAfresh, TypeOK, keyVars
<1>2. CASE Readable
  <2>1. put' = [put EXCEPT ![t] = [@ EXCEPT !.step = "read", !.current = Stored]]
    BY <1>2 DEF PutReads
  <2>2. Stored \in Content
    BY StoredType DEF TypeOK
  <2>3. /\ put' \in [Tab -> Request] /\ put'[t].step = "read"
        /\ put'[t].edit = put[t].edit /\ put'[t].current \in Content
        /\ \A o \in Tab \ {t} : put'[o] = put[o]
    <3> DEFINE new == [put[t] EXCEPT !.step = "read", !.current = Stored]
    <3>1. put \in [Tab -> Request]
      BY DEF TypeOK, Request
    <3>2. new \in Request /\ new.step = "read" /\ new.edit = put[t].edit /\ new.current = Stored
      BY <2>2, <3>1 DEF Request
    <3>3. put' = [put EXCEPT ![t] = new]
      BY <2>1
    <3> HIDE DEF new
    <3> QED BY <2>2, <3>1, <3>2, <3>3
  <2>4. put[t].edit \in Edit /\ key # None
    BY <1>1 DEF TypeOK
  <2>5. \A o \in Tab : /\ put'[o].step # "idle" => put'[o].edit \in Edit /\ key' # None
                       /\ put'[o].step = "read" => put'[o].current \in Content
    BY <1>1, <2>3, <2>4 DEF TypeOK
  <2>6. TypeOK'
    BY <1>1, <2>3, <2>5 DEF TypeOK, Request
  <2> QED BY <1>2, <2>6, RowStays DEF PutReads
<1>3. CASE ~Readable
  <2>1. put' = [put EXCEPT ![t] = Idle]
    BY <1>3 DEF PutReads
  <2>2. TypeOK'
    BY <1>1, <2>1, EndsType DEF TypeOK, Request
  <2> QED BY <2>1, <2>2, EndsType, RowStays DEF PutReads
<1> QED BY <1>2, <1>3

\* Settings that are not stored.
LEMMA RejectedKeeps == ASSUME IInv, NEW t \in Tab, PutRejected(t) PROVE IInv'
<1>1. /\ UNCHANGED <<row, keyFile, flushed, env, key, minted, touched, lost, form, overtaken, spent>>
      /\ put' = [put EXCEPT ![t] = Idle]
  BY DEF PutRejected, keyVars
<1>2. TypeOK'
  BY <1>1, EndsType DEF IInv, TypeOK, Request
<1> QED BY <1>1, <1>2, EndsType, RowStays DEF IInv, PutRejected

\* Whatever is stored is sealed under the key of the running daemon.
LEMMA WriteKeeps ==
    ASSUME IInv, NEW t \in Tab, put[t].step = "read", Valid(Proposed(t)),
           row' = Sealed(key, Proposed(t)), UNCHANGED keyVars, TypeOK'
    PROVE  SurvivesRestart' /\ KeyIsFound' /\ Readable'
<1> USE DEF IInv
<1>1. key \in Key /\ Proposed(t) \in Content
  BY ProposedType, SettingsAssumption DEF TypeOK
<1>2. /\ row'.secret.key = key
      /\ row'.git # Empty => row'.git.key = key
  BY <1>1, SealedType
<1>3. UNCHANGED <<keyFile, env, key, touched>>
  BY DEF keyVars
<1>4. KeyIsFound'
  BY <1>3 DEF KeyIsFound, Found
<1>5. SurvivesRestart'
  BY <1>1, <1>2, <1>3, SettingsAssumption DEF SurvivesRestart, SealedUnder, KeyIsFound, Found
<1>6. Readable'
  BY <1>2, <1>3 DEF Readable, Opens
<1> QED BY <1>4, <1>5, <1>6

\* A row that is written has its type.
LEMMA WriteType ==
    ASSUME TypeOK, NEW t \in Tab, put[t].step = "read", Valid(Proposed(t))
    PROVE  Sealed(key, Proposed(t)) \in Row /\ Masked(Proposed(t)) \in Shape
<1>1. key \in Key /\ Proposed(t) \in Content
  BY ProposedType, SettingsAssumption DEF TypeOK
<1> QED BY <1>1, SealedType, MaskedType

LEMMA PassedType == \A t \in Tab : Passed(t) \in [Tab -> {"no", "form", "request"}]
BY DEF Passed

\* A save, and one that fails before or after it has written.
LEMMA SavesKeeps ==
    ASSUME IInv, NEW t \in Tab, PutSaves(t) \/ PutFails(t) PROVE IInv'
<1> USE SettingsAssumption DEF IInv
<1>1. /\ put' = [put EXCEPT ![t] = Idle]
      /\ UNCHANGED <<keyFile, flushed, env, key, minted, touched, lost>>
      /\ spent' \in [saves : Nat, upsets : Nat]
  BY DEF PutSaves, PutFails, Spend, TypeOK, keyVars
<1>2. /\ put' \in [Tab -> Request] /\ put'[t].step = "idle"
      /\ \A o \in Tab \ {t} : put'[o] = put[o]
  BY <1>1, EndsType
<1>3. ASSUME put[t].step = "read", Valid(Proposed(t)), row' = Sealed(key, Proposed(t)),
             form' \in [Tab -> Shape], overtaken' \in [Tab -> {"no", "form", "request"}]
      PROVE  IInv'
  <2>1. TypeOK'
    BY <1>1, <1>2, <1>3, WriteType DEF TypeOK, Request, Shape
  <2>2. SurvivesRestart' /\ KeyIsFound' /\ Readable'
    BY <1>1, <1>3, <2>1, WriteKeeps DEF keyVars
  <2> QED BY <2>1, <2>2 DEF StaysReadable
<1>4. CASE PutSaves(t)
  <2>1. put[t].step = "read" /\ Valid(Proposed(t)) /\ row' = Sealed(key, Proposed(t))
    BY <1>4 DEF PutSaves
  <2>2. form' \in [Tab -> Shape]
    BY <1>4, <2>1, WriteType DEF PutSaves, TypeOK, Shape
  <2>3. overtaken' \in [Tab -> {"no", "form", "request"}]
    BY <1>4, PassedType DEF PutSaves
  <2> QED BY <1>3, <2>1, <2>2, <2>3
<1>5. CASE PutFails(t)
  <2>1. form' \in [Tab -> Shape]
    BY <1>5 DEF PutFails, TypeOK, Shape
  <2>2. CASE UNCHANGED <<row, overtaken>>
    <3>1. UNCHANGED <<row, overtaken, form>>
      BY <1>5, <2>2 DEF PutFails
    <3>2. TypeOK'
      BY <1>1, <1>2, <3>1 DEF TypeOK, Request
    <3> QED BY <1>1, <1>2, <3>1, <3>2, RowStays DEF keyVars
  <2>3. CASE /\ put[t].step = "read" /\ Valid(Proposed(t))
             /\ row' = Sealed(key, Proposed(t))
             /\ overtaken' = [Passed(t) EXCEPT ![t] = "form"]
    <3>1. overtaken' \in [Tab -> {"no", "form", "request"}]
      BY <2>3, PassedType
    <3> QED BY <1>3, <2>1, <2>3, <3>1
  <2> QED BY <1>5, <2>2, <2>3 DEF PutFails
<1> QED BY <1>4, <1>5

-----------------------------------------------------------------------------
\* The invariant holds of every behaviour of the settings service.
THEOREM Invariance == Spec => []IInv
<1>1. Init => IInv
  <2> SUFFICES ASSUME Init PROVE IInv
    OBVIOUS
  <2>1. /\ put \in [Tab -> Request] /\ \A t \in Tab : put[t].step = "idle"
        /\ form \in [Tab -> Shape]
    BY IdleType, ZeroType, MaskedType DEF Init
  <2>2. TypeOK
    BY <2>1, SettingsAssumption DEF Init, TypeOK, Request, Shape
  <2>3. SurvivesRestart /\ KeyIsFound /\ StaysReadable
    BY <2>1 DEF Init, SurvivesRestart, KeyIsFound, StaysReadable
  <2> QED BY <2>2, <2>3 DEF IInv
<1>2. IInv /\ [Next]_vars => IInv'
  <2> SUFFICES ASSUME IInv, [Next]_vars PROVE IInv'
    OBVIOUS
  <2>1. CASE UNCHANGED vars
    <3>1. UNCHANGED <<row, keyFile, flushed, env, key, minted, touched, lost, form, put, overtaken, spent>>
      BY <2>1 DEF vars, keyVars, pageVars
    <3>2. TypeOK'
      BY <3>1 DEF IInv, TypeOK
    <3> QED BY <3>1, <3>2, RowStays DEF keyVars
  <2>2. CASE Start \/ Flush \/ CutShort \/ Stop \/ MachineStops \/ Rekey
    BY <2>2, StartKeeps, FlushKeeps, CutShortKeeps, StopKeeps, MachineKeeps, RekeyKeeps
  <2>3. ASSUME NEW t \in Tab, Load(t) \/ Save(t) PROVE IInv'
    BY <2>3, FormKeeps
  <2>4. ASSUME NEW t \in Tab, PutReads(t) \/ PutRejected(t) PROVE IInv'
    BY <2>4, ReadKeeps, RejectedKeeps
  <2>5. ASSUME NEW t \in Tab, PutSaves(t) \/ PutFails(t) PROVE IInv'
    BY <2>5, SavesKeeps
  <2> QED BY <2>1, <2>2, <2>3, <2>4, <2>5 DEF Next
<1> QED BY <1>1, <1>2, PTL DEF Spec

\* Types: what Save stores is complete and sealed.
THEOREM TypeCorrect == Spec => []TypeOK
<1>1. IInv => TypeOK
  BY DEF IInv
<1> QED BY <1>1, Invariance, PTL

\* The next start finds the key of what is stored, unless an operator changed it
\* or it went down with the machine before its file was flushed (LoadOrCreateKey,
\* generateKeyFile).
THEOREM KeyIsKept == Spec => []SurvivesRestart
<1>1. IInv => SurvivesRestart
  BY DEF IInv
<1> QED BY <1>1, Invariance, PTL

\* No step replaces a row that the running daemon cannot read (handlePutSettings).
THEOREM KeptUnread == Spec => UnreadableIsKept
<1>1. IInv /\ [Next]_vars => [row' # row => Readable]_vars
  <2> SUFFICES ASSUME IInv, Next, row' # row PROVE Readable
    OBVIOUS
  <2>1. PICK t \in Tab : PutSaves(t) \/ PutFails(t)
    BY DEF Next, Start, Flush, CutShort, Stop, MachineStops, Rekey, Load, Save, PutReads, PutRejected
  <2>2. put[t].step = "read"
    BY <2>1 DEF PutSaves, PutFails
  <2> QED BY <2>2 DEF IInv, StaysReadable
<1> QED BY <1>1, Invariance, PTL DEF Spec, UnreadableIsKept

-----------------------------------------------------------------------------
(* What a save leaves as its page showed it. *)

\* What a save has read is still what is stored, until another page saves.
IsCurrent ==
    \A t \in Tab : put[t].step = "read" /\ overtaken[t] # "request" => put[t].current = Stored

\* A page shows what is stored, until another page saves.
IsShown == \A t \in Tab : overtaken[t] = "no" => form[t].plain = Stored.plain

PagesInv == IInv /\ IsCurrent /\ IsShown

\* What is sealed and stored is what opening the row returns.
LEMMA StoredIsSaved ==
    ASSUME IInv, NEW t \in Tab, put[t].step = "read", Valid(Proposed(t)),
           row' = Sealed(key, Proposed(t))
    PROVE  Stored' = [plain |-> Proposed(t).plain, secret |-> Proposed(t).secret,
                      git |-> Proposed(t).git]
<1> DEFINE c == Proposed(t)
<1>1. key \in Key /\ c \in Content
  BY ProposedType, SettingsAssumption DEF IInv, TypeOK
<1>2. c.secret \in Secret \cup {Empty} /\ c.git \in Secret \cup {Empty}
  BY <1>1 DEF Content
<1>3. row' # None
  BY <1>1, SealedType
<1> HIDE DEF c
<1>4. \A x \in Secret \cup {Empty} : Opened(Seal(key, x)) = x
  BY <1>1, SettingsAssumption DEF Opened, Seal
<1>5. row'.plain = c.plain /\ row'.secret = Seal(key, c.secret) /\ row'.git = Seal(key, c.git)
  BY DEF c, Sealed
<1>6. Stored' = [plain |-> row'.plain, secret |-> Opened(row'.secret), git |-> Opened(row'.git)]
  BY <1>3 DEF Stored, Opened
<1> QED BY <1>2, <1>4, <1>5, <1>6 DEF c

\* A save leaves behind one page that shows what is stored, and overtakes
\* the requests and the forms of all the others.
LEMMA WriteKeepsPages ==
    ASSUME PagesInv, NEW t \in Tab, put[t].step = "read",
           put' = [put EXCEPT ![t] = Idle],
           \A o \in Tab \ {t} : overtaken'[o] = Passed(t)[o],
           overtaken'[t] = "no" => form'[t].plain = Stored'.plain
    PROVE  IsCurrent' /\ IsShown'
<1>1. put'[t].step = "idle" /\ \A o \in Tab \ {t} : put'[o] = put[o]
  BY EndsType DEF PagesInv, IInv
<1>2. \A o \in Tab \ {t} : /\ overtaken'[o] # "no"
                           /\ put'[o].step = "read" => overtaken'[o] = "request"
  BY <1>1 DEF Passed
<1>3. IsCurrent'
  BY <1>1, <1>2 DEF IsCurrent
<1>4. IsShown'
  BY <1>2 DEF IsShown
<1> QED BY <1>3, <1>4

\* Whatever leaves the row alone leaves it to the pages to be up to date.
LEMMA PagesStay ==
    ASSUME PagesInv, row' = row,
           \A t \in Tab : put'[t].step = "read" /\ overtaken'[t] # "request" =>
              \/ put[t].step = "read" /\ overtaken[t] # "request" /\ put'[t].current = put[t].current
              \/ put'[t].current = Stored,
           \A t \in Tab : overtaken'[t] = "no" =>
              \/ overtaken[t] = "no" /\ form'[t] = form[t]
              \/ form'[t].plain = Stored.plain
    PROVE  IsCurrent' /\ IsShown'
<1>1. Stored' = Stored
  BY DEF Stored, Opened
<1> QED BY <1>1 DEF PagesInv, IsCurrent, IsShown

\* Opening the page, asking for a save, and what its request reads.
LEMMA RequestKeepsPages ==
    ASSUME PagesInv, NEW t \in Tab, Load(t) \/ Save(t) \/ PutReads(t) \/ PutRejected(t)
    PROVE  IsCurrent' /\ IsShown'
<1>1. /\ put \in [Tab -> Request] /\ form \in [Tab -> Shape]
      /\ overtaken \in [Tab -> {"no", "form", "request"}]
  BY DEF PagesInv, IInv, TypeOK, Request, Shape
<1>2. CASE Load(t)
  <2>1. row' = row /\ put' = put
    BY <1>2 DEF Load
  <2>2. /\ form'[t].plain = Stored.plain
        /\ \A o \in Tab \ {t} : form'[o] = form[o] /\ overtaken'[o] = overtaken[o]
    BY <1>1, <1>2 DEF Load, Masked
  <2>3. put[t].step = "idle"
    BY <1>2 DEF Load
  <2> QED BY <2>1, <2>2, <2>3, PagesStay
<1>3. CASE Save(t)
  <2>1. PICK e \in Edit :
          put' = [put EXCEPT ![t] = [step |-> "sent", edit |-> e, current |-> None]]
    BY <1>3 DEF Save
  <2>2. put'[t].step = "sent" /\ \A o \in Tab \ {t} : put'[o] = put[o]
    BY <1>1, <2>1
  <2>3. UNCHANGED <<row, form, overtaken>>
    BY <1>3 DEF Save
  <2> QED BY <2>2, <2>3, PagesStay
<1>4. CASE PutReads(t)
  <2>1. row' = row /\ form' = form
    BY <1>4 DEF PutReads
  <2>2. /\ \A o \in Tab \ {t} : overtaken'[o] = overtaken[o]
        /\ overtaken'[t] = "no" => overtaken[t] = "no"
    BY <1>1, <1>4 DEF PutReads, ReadAfresh
  <2>3. /\ \A o \in Tab \ {t} : put'[o] = put[o]
        /\ put'[t].step = "read" => put'[t].current = Stored
    <3>1. CASE Readable
      <4> DEFINE new == [put[t] EXCEPT !.step = "read", !.current = Stored]
      <4>1. put' = [put EXCEPT ![t] = new]
        BY <1>4, <3>1 DEF PutReads
      <4>2. new.current = Stored
        BY <1>1 DEF Request
      <4> HIDE DEF new
      <4> QED BY <1>1, <4>1, <4>2
    <3>2. CASE ~Readable
      <4>1. put' = [put EXCEPT ![t] = Idle]
        BY <1>4, <3>2 DEF PutReads
      <4> QED BY <4>1, EndsType DEF PagesInv, IInv
    <3> QED BY <3>1, <3>2
  <2> QED BY <2>1, <2>2, <2>3, PagesStay
<1>5. CASE PutRejected(t)
  <2>1. UNCHANGED <<row, form, overtaken>> /\ put' = [put EXCEPT ![t] = Idle]
    BY <1>5 DEF PutRejected
  <2>2. put'[t].step = "idle" /\ \A o \in Tab \ {t} : put'[o] = put[o]
    BY <2>1, EndsType DEF PagesInv, IInv
  <2> QED BY <2>1, <2>2, PagesStay
<1> QED BY <1>2, <1>3, <1>4, <1>5

\* A save, and one whose page does not hear of it.
LEMMA SavesKeepPages ==
    ASSUME PagesInv, NEW t \in Tab, PutSaves(t) \/ PutFails(t)
    PROVE  IsCurrent' /\ IsShown'
<1>1. /\ form \in [Tab -> Shape] /\ overtaken \in [Tab -> {"no", "form", "request"}]
      /\ put' = [put EXCEPT ![t] = Idle]
  BY DEF PagesInv, IInv, TypeOK, Shape, PutSaves, PutFails
<1>2. put'[t].step = "idle" /\ \A o \in Tab \ {t} : put'[o] = put[o]
  BY <1>1, EndsType DEF PagesInv, IInv
<1>3. CASE PutSaves(t)
  <2>1. /\ put[t].step = "read" /\ Valid(Proposed(t)) /\ row' = Sealed(key, Proposed(t))
        /\ overtaken' = Passed(t) /\ form' = [form EXCEPT ![t] = Masked(Proposed(t))]
    BY <1>3 DEF PutSaves
  <2>2. form'[t].plain = Stored'.plain
    <3>1. Stored'.plain = Proposed(t).plain
      BY <2>1, StoredIsSaved DEF PagesInv
    <3> QED BY <1>1, <2>1, <3>1 DEF Masked
  <2> QED BY <1>1, <2>1, <2>2, WriteKeepsPages
<1>4. CASE PutFails(t)
  <2>1. CASE UNCHANGED <<row, overtaken>>
    <3>1. form' = form
      BY <1>4 DEF PutFails
    <3> QED BY <1>2, <2>1, <3>1, PagesStay
  <2>2. CASE put[t].step = "read" /\ overtaken' = [Passed(t) EXCEPT ![t] = "form"]
    <3>1. overtaken'[t] = "form" /\ \A o \in Tab \ {t} : overtaken'[o] = Passed(t)[o]
      BY <2>2 DEF Passed
    <3> QED BY <1>1, <2>2, <3>1, WriteKeepsPages
  <2> QED BY <1>4, <2>1, <2>2 DEF PutFails
<1> QED BY <1>3, <1>4

\* Every step keeps the pages as up to date as they have to be.
LEMMA PagesInvariance == Spec => []PagesInv
<1>1. Init => IsCurrent /\ IsShown
  BY DEF Init, Idle, IsCurrent, IsShown
<1>2. PagesInv /\ [Next]_vars => IsCurrent' /\ IsShown'
  <2> SUFFICES ASSUME PagesInv, [Next]_vars PROVE IsCurrent' /\ IsShown'
    OBVIOUS
  <2>1. ASSUME UNCHANGED <<row, form, put, overtaken>> PROVE IsCurrent' /\ IsShown'
    BY <2>1, PagesStay
  <2>2. CASE Stop \/ MachineStops
    <3>1. /\ UNCHANGED <<row, form, overtaken>> /\ put' = [t \in Tab |-> Idle]
      BY <2>2 DEF Stop, MachineStops
    <3>2. \A t \in Tab : put'[t].step = "idle"
      BY <3>1, IdleType
    <3> QED BY <3>1, <3>2, PagesStay
  <2>3. CASE UNCHANGED vars \/ Start \/ Flush \/ CutShort \/ Rekey
    BY <2>1, <2>3 DEF vars, pageVars, Start, Flush, CutShort, Rekey
  <2>4. ASSUME NEW t \in Tab, Load(t) \/ Save(t) \/ PutReads(t) \/ PutRejected(t)
        PROVE  IsCurrent' /\ IsShown'
    BY <2>4, RequestKeepsPages
  <2>5. ASSUME NEW t \in Tab, PutSaves(t) \/ PutFails(t) PROVE IsCurrent' /\ IsShown'
    BY <2>5, SavesKeepPages
  <2> QED BY <2>2, <2>3, <2>4, <2>5 DEF Next
<1> QED BY <1>1, <1>2, Invariance, PTL DEF Spec, PagesInv

\* What one save does: it is the request of one page that writes, and what it
\* writes is what is stored, with what was typed in place of what was there.
LEMMA SaveMerges ==
    ASSUME PagesInv, NEW t \in Tab, put[t].step = "read", Valid(Proposed(t)),
           row' = Sealed(key, Proposed(t)), overtaken[t] # "request",
           NEW e, e = put[t].edit
    PROVE  /\ Kept(e.secret, Stored.secret, Stored'.secret)
           /\ Kept(e.git, Stored.git, Stored'.git)
           /\ overtaken[t] = "no" =>
                Stored'.plain = IF e.plain = Untouched THEN Stored.plain ELSE e.plain
<1>1. put[t].current = Stored /\ (overtaken[t] = "no" => form[t].plain = Stored.plain)
  BY DEF PagesInv, IsCurrent, IsShown
<1>2. /\ Stored'.plain = Proposed(t).plain
      /\ Stored'.secret = Proposed(t).secret
      /\ Stored'.git = Proposed(t).git
  BY StoredIsSaved DEF PagesInv
<1>3. /\ Proposed(t).plain = IF e.plain = Untouched THEN form[t].plain ELSE e.plain
      /\ Proposed(t).secret = IF e.secret = Empty THEN put[t].current.secret ELSE e.secret
      /\ Proposed(t).git = IF e.git = Empty THEN put[t].current.git ELSE e.git
  BY DEF Proposed, Merged
<1> QED BY <1>1, <1>2, <1>3 DEF Kept

\* A save leaves alone what its page left alone, unless another save came
\* between the read and the write of the same request (handlePutSettings).
THEOREM LeavesWhatWasLeft == Spec => SavesWhatItShows
<1> DEFINE Leaves(t) ==
      Saved(t) /\ overtaken[t] # "request" =>
          LET e == put[t].edit
          IN /\ Kept(e.secret, Stored.secret, Stored'.secret)
             /\ Kept(e.git, Stored.git, Stored'.git)
             /\ overtaken[t] = "no" =>
                  Stored'.plain = IF e.plain = Untouched THEN Stored.plain ELSE e.plain
<1>1. PagesInv /\ [Next]_vars => [\A t \in Tab : Leaves(t)]_vars
  <2> SUFFICES ASSUME PagesInv, Next, NEW t \in Tab, Saved(t), overtaken[t] # "request"
               PROVE  Leaves(t)
    OBVIOUS
  <2>1. put[t].step = "read" /\ put'[t].step = "idle" /\ row' # row
    BY DEF Saved
  <2>2. PICK o \in Tab : PutSaves(o) \/ PutFails(o)
    BY <2>1 DEF Next, Start, Flush, CutShort, Stop, MachineStops, Rekey, Load, Save, PutReads, PutRejected
  <2>3. /\ put[o].step = "read" /\ Valid(Proposed(o)) /\ row' = Sealed(key, Proposed(o))
        /\ put' = [put EXCEPT ![o] = Idle]
    BY <2>1, <2>2 DEF PutSaves, PutFails
  <2>4. o = t
    BY <2>1, <2>3, EndsType DEF PagesInv, IInv
  <2> QED BY <2>3, <2>4, SaveMerges
<1> QED BY <1>1, PagesInvariance, PTL DEF Spec, SavesWhatItShows
=============================================================================
