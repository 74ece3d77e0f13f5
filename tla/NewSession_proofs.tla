-------------------------- MODULE NewSession_proofs --------------------------
(***************************************************************************)
(* Proofs about NewSession: what a run knows when it begins a session.     *)
(* The inductive invariant has three parts.  What was verified is still    *)
(* what the snapshot asks for; each read of the preparation leaves behind  *)
(* what the next one relies on; and the histories tell of the catalog and  *)
(* of the session what really was.                                         *)
(***************************************************************************)
EXTENDS NewSession, TLAPS

\* What PrepareNewSession and CheckEnvironment know after each of their reads.
ReadsInOrder ==
  /\ channel # "broken"
  /\ pc = "status" => version = "active"
  /\ pc \in {"settings", "providers", "models"} => channel = "ready"
  /\ pc = "models" => Wanted # None /\ Wanted.provider \in Supported /\ available

\* Prepared inputs are those of the snapshot, and the daemon did offer them.
PreparedIsTrue ==
  /\ pc = "off" => verified = None
  /\ pc \in {"workspace", "session"} => verified # None
  /\ verified # None => /\ verified = snapshot.wants
                        /\ channel = "ready"
                        /\ available /\ offered
                        /\ snapshot.wants.provider \in Supported

Unfounded == {"tree", "channel", "settings", "providers", "models", "workspace", "session"}

\* The histories: what the catalog says now, it said some time; while nothing
\* else moved, it says what it said; a session present all the time is there.
CatalogIsRemembered ==
  pc # "off" => /\ IsAvailable(catalog, snapshot.wants) => available
                /\ IsOffered(catalog, snapshot.wants) => offered

CalmIsUnchanged ==
  calm => /\ available => IsAvailable(catalog, snapshot.wants)
          /\ offered => IsOffered(catalog, snapshot.wants)

PresentIsSeen == present => session /\ pc \notin Unfounded

Inputs == ReadsInOrder /\ PreparedIsTrue /\ CatalogIsRemembered /\ CalmIsUnchanged /\ PresentIsSeen
-----------------------------------------------------------------------------
\* The end of the process forgets everything, so nothing can be wrong of it.
LEMMA EndKeepsType ==
  ASSUME NEW how \in {"noWork", "refused", "obstacle", "done"}, End(how), TypeOK
  PROVE  /\ pc' = "off" /\ outcome' = how
         /\ snapshot' \in File /\ version' \in {"active", "other"}
         /\ channel' = "unresolved" /\ verified' = None /\ request' \in Request
         /\ calm' = FALSE /\ present' = FALSE /\ available' = FALSE /\ offered' = FALSE
BY DEF End, Goto, NoSnapshot, NoRequest, File, Request

LEMMA EndKeepsInputs ==
  ASSUME NEW how, End(how)
  PROVE  Inputs'
BY DEF End, Goto, Inputs, ReadsInOrder, PreparedIsTrue, CatalogIsRemembered, CalmIsUnchanged,
       PresentIsSeen, Unfounded

\* What everybody else does keeps the type of the world.
LEMMA WorldKeepsType ==
  ASSUME TypeOK, UserEditsFile \/ PaseoChanges \/ CatalogChanges \/ SessionChanges
  PROVE  TypeOK'
<1>1. CASE UserEditsFile
  <2>1. file' \in File
    BY <1>1 DEF UserEditsFile, TypeOK, File
  <2>2. catalog' \in Catalog /\ SoundCatalog(catalog)'
    BY <1>1 DEF UserEditsFile, TypeOK, SoundCatalog
  <2>3. UNCHANGED <<paseo, pc, snapshot, version, channel, verified, request, outcome>>
    BY <1>1 DEF UserEditsFile, Others
  <2>4. /\ session' \in BOOLEAN /\ calm' \in BOOLEAN /\ present' \in BOOLEAN
        /\ available' \in BOOLEAN /\ offered' \in BOOLEAN
    BY <1>1 DEF UserEditsFile, Others, TypeOK
  <2> QED BY <2>1, <2>2, <2>3, <2>4 DEF TypeOK
<1>2. CASE PaseoChanges
  <2>1. paseo' \in Installation
    BY <1>2 DEF PaseoChanges, TypeOK, Installation
  <2>2. catalog' \in Catalog /\ SoundCatalog(catalog)'
    BY <1>2 DEF PaseoChanges, TypeOK, SoundCatalog
  <2>3. UNCHANGED <<file, pc, snapshot, version, channel, verified, request, outcome>>
    BY <1>2 DEF PaseoChanges, Others
  <2>4. /\ session' \in BOOLEAN /\ calm' \in BOOLEAN /\ present' \in BOOLEAN
        /\ available' \in BOOLEAN /\ offered' \in BOOLEAN
    BY <1>2 DEF PaseoChanges, Others, TypeOK
  <2> QED BY <2>1, <2>2, <2>3, <2>4 DEF TypeOK
<1>3. CASE CatalogChanges
  <2>1. catalog' \in Catalog
    <3>1. catalog \in Catalog
      BY DEF TypeOK
    <3>2. CASE ProviderChanges
      BY <3>1, <3>2 DEF ProviderChanges, Catalog
    <3>3. CASE ModelsChange
      BY <3>1, <3>3 DEF ModelsChange, Catalog
    <3> QED BY <1>3, <3>2, <3>3 DEF CatalogChanges
  <2>2. SoundCatalog(catalog)'
    BY <1>3 DEF CatalogChanges, SoundCatalog
  <2>3. available' \in BOOLEAN /\ offered' \in BOOLEAN
    BY <1>3 DEF CatalogChanges, TypeOK
  <2> QED BY <1>3, <2>1, <2>2, <2>3 DEF CatalogChanges, Others, TypeOK
<1>4. CASE SessionChanges
  <2>1. catalog' \in Catalog /\ SoundCatalog(catalog)'
    BY <1>4 DEF SessionChanges, TypeOK, SoundCatalog
  <2>2. UNCHANGED <<file, paseo, pc, snapshot, version, channel, verified, request, outcome>>
    BY <1>4 DEF SessionChanges, Others
  <2>3. session' \in BOOLEAN /\ calm' = FALSE /\ present' = FALSE /\ UNCHANGED <<available, offered>>
    BY <1>4 DEF SessionChanges, Others
  <2> QED BY <2>1, <2>2, <2>3 DEF TypeOK
<1> QED BY <1>1, <1>2, <1>3, <1>4

LEMMA TypeHolds == Spec => []TypeOK
<1>1. Init => TypeOK
  <2> SUFFICES ASSUME Init PROVE TypeOK
    OBVIOUS
  <2>1. snapshot \in File /\ request \in Request
    BY DEF Init, NoSnapshot, NoRequest, File, Request
  <2>2. catalog \in Catalog /\ SoundCatalog(catalog)
    BY DEF Init
  <2>3. calm \in BOOLEAN /\ present \in BOOLEAN /\ available \in BOOLEAN /\ offered \in BOOLEAN
    BY DEF Init
  <2>4. /\ file \in File /\ paseo \in Installation /\ session \in BOOLEAN
        /\ pc = "off" /\ version = "other" /\ channel = "unresolved" /\ verified = None
        /\ outcome = "none"
    BY DEF Init
  <2> QED BY <2>1, <2>2, <2>3, <2>4 DEF TypeOK
<1>2. TypeOK /\ [Next]_vars => TypeOK'
  <2> SUFFICES ASSUME TypeOK, [Next]_vars PROVE TypeOK'
    OBVIOUS
  <2> USE DEF TypeOK
  <2>1. CASE \E how \in {"noWork", "refused", "obstacle", "done"} : End(how) /\ UNCHANGED world
    BY <2>1, EndKeepsType DEF world, SoundCatalog
  <2>2. CASE ReadSnapshot
    <3>1. available' \in BOOLEAN /\ offered' \in BOOLEAN
      BY <2>2 DEF ReadSnapshot, IsAvailable, IsOffered
    <3> QED BY <2>2, <3>1 DEF ReadSnapshot, Goto, world, SoundCatalog
  <2>3. CASE ReadVersion
    BY <2>1, <2>3 DEF ReadVersion, Goto, Stop, world, history, SoundCatalog
  <2>4. CASE \E place \in {"look", "channel", "workspace", "session", "providers", "models"} :
               Proceed(place)
    BY <2>4 DEF Proceed, OnlyMoves, Goto, world, history, SoundCatalog
  <2>5. CASE ReadStatus
    BY <2>1, <2>4, <2>5 DEF ReadStatus, AfterCheck, Stop
  <2>6. CASE Look
    BY <2>6 DEF Look, Goto, world, SoundCatalog
  <2>7. CASE ReadTree
    BY <2>1, <2>4, <2>7 DEF ReadTree, Stop
  <2>8. CASE ResolveChannel
    BY <2>1, <2>8 DEF ResolveChannel, Resolved, Goto, Stop, world, history, SoundCatalog
  <2>9. CASE DecodeSettings \/ ReadProviders
    BY <2>1, <2>4, <2>9 DEF DecodeSettings, ReadProviders, Stop
  <2>10. CASE ReadModels
    <3>1. snapshot.wants \in Settings \cup {None}
      BY DEF File
    <3> QED BY <2>1, <2>10, <3>1
            DEF ReadModels, Wanted, Goto, Stop, world, history, SoundCatalog
  <2>11. ASSUME NEW op \in {"workspace", "run", "archive"}, NEW x \in Settings \cup {None},
                Send(op, x)
         PROVE  TypeOK'
    <3>1. request' \in Request
      BY <2>11 DEF Send, Request
    <3> QED BY <2>11, <3>1 DEF Send, Goto, world, history, SoundCatalog
  <2>12. CASE CreateWorkspace \/ CreateOwnSession
    BY <2>4, <2>11, <2>12 DEF CreateWorkspace, CreateOwnSession
  <2>13. CASE ReceiveAnswer
    <3>1. CASE request.op = "workspace" /\ Proceed("look")
      BY <2>4, <3>1
    <3>2. CASE session' = TRUE /\ Goto("accompany") /\ verified' = None
               /\ UNCHANGED <<file, paseo, catalog, snapshot, version, channel, request, outcome,
                              history>>
      BY <3>2 DEF Goto, history, SoundCatalog
    <3>3. CASE session' = FALSE /\ End("done") /\ UNCHANGED <<file, paseo, catalog>>
      BY <3>3, EndKeepsType DEF SoundCatalog
    <3> QED BY <2>1, <2>13, <3>1, <3>2, <3>3 DEF ReceiveAnswer, Stop
  <2>14. CASE Accompany \/ SourceFails
    BY <2>1, <2>11, <2>14 DEF Accompany, SourceFails, Stop
  <2>15. CASE UserEditsFile \/ PaseoChanges \/ CatalogChanges \/ SessionChanges
    BY <2>15, WorldKeepsType
  <2>16. CASE UNCHANGED vars
    BY <2>16 DEF vars, SoundCatalog
  <2> QED
    BY <2>2, <2>3, <2>5, <2>6, <2>7, <2>8, <2>9, <2>10, <2>12, <2>13, <2>14, <2>15, <2>16 DEF Next
<1> QED BY <1>1, <1>2, PTL DEF Spec

\* Every variable keeps its type.
THEOREM InputsTypeCorrect == Spec => []TypeOK
BY TypeHolds, PTL
-----------------------------------------------------------------------------
(* What is known of the inputs.                                            *)

LEMMA InputsHold == Spec => []Inputs
<1>1. Init => Inputs
  BY DEF Init, Inputs, ReadsInOrder, PreparedIsTrue, CatalogIsRemembered, CalmIsUnchanged,
         PresentIsSeen
<1>2. TypeOK /\ Inputs /\ [Next]_vars => Inputs'
  <2> SUFFICES ASSUME TypeOK, Inputs, [Next]_vars PROVE Inputs'
    OBVIOUS
  <2> USE DEF Inputs, ReadsInOrder, PreparedIsTrue, CatalogIsRemembered, CalmIsUnchanged,
              PresentIsSeen, Unfounded
  <2>1. ASSUME NEW how, Stop(how) PROVE Inputs'
    BY <2>1, EndKeepsInputs DEF Stop
  <2>2. CASE ReadSnapshot
    <3>1. /\ pc' = "version" /\ present' = session /\ session' = session /\ catalog' = catalog
          /\ snapshot' = file /\ channel' = channel /\ verified' = verified
          /\ verified = None
      BY <2>2 DEF ReadSnapshot, Goto, world
    <3>2. CatalogIsRemembered' /\ CalmIsUnchanged'
      BY <2>2, <3>1 DEF ReadSnapshot, IsAvailable, IsOffered
    <3> QED BY <3>1, <3>2 DEF Wanted
  <2>3. CASE ReadVersion
    BY <2>1, <2>3 DEF ReadVersion, Goto, world, history, Wanted
  <2>4. CASE ReadStatus
    BY <2>1, <2>4 DEF ReadStatus, AfterCheck, Proceed, OnlyMoves, Goto, world, history, Wanted
  <2>5. CASE Look
    BY <2>5 DEF Look, Goto, world, Wanted
  <2>6. CASE ReadTree
    BY <2>1, <2>6 DEF ReadTree, NotPrepared, Proceed, OnlyMoves, Goto, world, history, Wanted
  <2>7. CASE ResolveChannel
    BY <2>1, <2>7 DEF ResolveChannel, Resolved, Goto, world, history, Wanted, TypeOK
  <2>8. CASE DecodeSettings
    BY <2>1, <2>8 DEF DecodeSettings, Proceed, OnlyMoves, Goto, world, history, Wanted
  <2>9. CASE ReadProviders
    BY <2>1, <2>9
       DEF ReadProviders, ProviderAccepted, ProviderAvailable, IsAvailable, Proceed, OnlyMoves,
           Goto, world, history, Wanted
  <2>10. CASE ReadModels
    <3>1. CASE /\ Wanted # None /\ ModelOffered(catalog, Wanted)
               /\ verified' = Wanted /\ Goto("look")
               /\ UNCHANGED <<world, snapshot, version, channel, request, outcome, history>>
      <4>1. IsOffered(catalog, Wanted)
        BY <3>1 DEF IsOffered, ModelOffered
      <4> QED BY <2>10, <3>1, <4>1 DEF ReadModels, Goto, world, history, Wanted
    <3> QED BY <2>1, <2>10, <3>1 DEF ReadModels
  <2>11. CASE CreateWorkspace \/ CreateOwnSession
    BY <2>11 DEF CreateWorkspace, CreateOwnSession, Send, Proceed, OnlyMoves, Goto, world, history,
                 Wanted
  <2>12. CASE ReceiveAnswer
    BY <2>1, <2>12, EndKeepsInputs
       DEF ReceiveAnswer, Proceed, OnlyMoves, Goto, world, history, Wanted
  <2>13. CASE Accompany \/ SourceFails
    BY <2>1, <2>13 DEF Accompany, SourceFails, Send, Goto, world, history, Wanted
  <2>14. CASE UserEditsFile \/ PaseoChanges \/ SessionChanges
    BY <2>14 DEF UserEditsFile, PaseoChanges, SessionChanges, Others, Wanted
  <2>15. CASE CatalogChanges
    BY <2>15 DEF CatalogChanges, Others, Wanted, TypeOK
  <2>16. CASE UNCHANGED vars
    BY <2>16 DEF vars, Wanted
  <2> QED
    BY <2>2, <2>3, <2>4, <2>5, <2>6, <2>7, <2>8, <2>9, <2>10, <2>11, <2>12, <2>13, <2>14, <2>15,
       <2>16 DEF Next
<1> QED BY <1>1, <1>2, TypeHolds, PTL DEF Spec
-----------------------------------------------------------------------------
(* Influence.                                                              *)

\* Only two actions create, and both from prepared inputs.
LEMMA CreatesFromPrepared ==
  ASSUME TypeOK, Inputs, [Next]_vars, Sends({"workspace", "run"})
  PROVE  /\ verified # None
         /\ request'.op = "run" => request'.settings = verified
<1> USE DEF Sends
<1>1. CASE CreateWorkspace \/ CreateOwnSession
  BY <1>1 DEF CreateWorkspace, CreateOwnSession, Send, Proceed, Goto, Inputs, PreparedIsTrue
<1>2. CASE Accompany
  BY <1>2 DEF Accompany, Send, Stop, End, Goto
<1>3. pc' # "call" \/ pc' = pc \/ CreateWorkspace \/ CreateOwnSession \/ Accompany
  BY DEF Next, ReadSnapshot, ReadVersion, ReadStatus, AfterCheck, Look, ReadTree, ResolveChannel,
         DecodeSettings, ReadProviders, ReadModels, ReceiveAnswer, SourceFails, Proceed, Stop, End,
         Goto, UserEditsFile, PaseoChanges, CatalogChanges, SessionChanges, Others, vars
<1> QED BY <1>1, <1>2, <1>3

\* Nothing is created for a new session without a channel and without settings
\* the daemon offered.
THEOREM InfluenceNeedsInputs == Spec => InputsBeforeInfluence
<1>1. TypeOK /\ Inputs /\ [Next]_vars
      => [Sends({"workspace", "run"}) =>
            /\ channel = "ready"
            /\ available /\ offered
            /\ snapshot.wants.provider \in Supported]_vars
  BY CreatesFromPrepared DEF Inputs, PreparedIsTrue
<1> QED BY <1>1, TypeHolds, InputsHold, PTL DEF Spec, InputsBeforeInfluence

\* A session is given the settings of the snapshot of its run.
THEOREM SessionGetsSnapshot == Spec => RunGivesSnapshot
<1>1. TypeOK /\ Inputs /\ [Next]_vars
      => [Sends({"run"}) => request'.settings = snapshot.wants]_vars
  <2> SUFFICES ASSUME TypeOK, Inputs, [Next]_vars, Sends({"run"})
               PROVE  request'.settings = snapshot.wants
    OBVIOUS
  <2>1. Sends({"workspace", "run"}) /\ request'.op = "run"
    BY DEF Sends
  <2>2. verified # None /\ request'.settings = verified
    BY <2>1, CreatesFromPrepared
  <2> QED BY <2>2 DEF Inputs, PreparedIsTrue
<1> QED BY <1>1, TypeHolds, InputsHold, PTL DEF Spec, RunGivesSnapshot

\* What the run goes on with was compatible as a whole when it was read last.
THEOREM EnvironmentIsCompatible == Spec => CheckedIsCompatible
<1>1. TypeOK /\ Inputs /\ [Next]_vars
      => [pc = "status" /\ pc' \notin {"status", "off"} => Compatible(paseo)]_vars
  <2> SUFFICES ASSUME TypeOK, Inputs, [Next]_vars, pc = "status", pc' \notin {"status", "off"}
               PROVE  Compatible(paseo)
    OBVIOUS
  <2>1. ReadStatus
    BY DEF Next, ReadSnapshot, ReadVersion, Look, ReadTree, ResolveChannel, DecodeSettings,
           ReadProviders, ReadModels, CreateWorkspace, CreateOwnSession, ReceiveAnswer, Accompany,
           SourceFails, Stop, End, Goto, UserEditsFile, PaseoChanges, CatalogChanges,
           SessionChanges, Others, vars
  <2> QED BY <2>1 DEF ReadStatus, StatusAccepted, Compatible, Stop, End, Goto, Inputs, ReadsInOrder
<1> QED BY <1>1, TypeHolds, InputsHold, PTL DEF Spec, CheckedIsCompatible
-----------------------------------------------------------------------------
(* Refusal.                                                                *)

\* Four reads refuse, each for what the snapshot or the catalog lacks.
LEMMA WhoRefuses ==
  ASSUME [Next]_vars, outcome' = "refused", outcome # "refused"
  PROVE  \/ pc = "channel" /\ Resolved = "broken"
         \/ pc = "settings" /\ Wanted = None
         \/ pc = "providers" /\ ~ (Wanted # None /\ ProviderAccepted(Wanted))
         \/ pc = "models" /\ ~ (Wanted # None /\ ModelOffered(catalog, Wanted))
<1>1. CASE ResolveChannel \/ DecodeSettings \/ ReadProviders \/ ReadModels
  BY <1>1 DEF ResolveChannel, DecodeSettings, ReadProviders, ReadModels, Proceed, Stop, End, Goto
<1>2. outcome' = outcome \/ outcome' # "refused"
      \/ ResolveChannel \/ DecodeSettings \/ ReadProviders \/ ReadModels
  BY DEF Next, ReadSnapshot, ReadVersion, ReadStatus, Look, ReadTree, CreateWorkspace,
         CreateOwnSession, ReceiveAnswer, Accompany, SourceFails, Send, Proceed, Stop, End,
         UserEditsFile, PaseoChanges, CatalogChanges, SessionChanges, Others, vars
<1> QED BY <1>1, <1>2

\* A session that was active all the time needs neither file nor catalog.
THEOREM AccompanyingNeedsNoInputs == Spec => RecoveryNeedsNoInputs
<1>1. Inputs /\ [Next]_vars
      => [outcome' = "refused" /\ outcome # "refused" => ~ present]_vars
  BY WhoRefuses DEF Inputs, PresentIsSeen, Unfounded
<1> QED BY <1>1, InputsHold, PTL DEF Spec, RecoveryNeedsNoInputs

\* No false refusal while nothing else moves.
THEOREM SoundIsAccepted == Spec => SoundInputsAreAccepted
<1>1. TypeOK /\ Inputs /\ [Next]_vars
      => [outcome' = "refused" /\ outcome # "refused" /\ calm =>
            ~ /\ snapshot.channel = "usable" /\ snapshot.wants # None
              /\ available /\ offered /\ snapshot.wants.provider \in Supported]_vars
  <2> SUFFICES ASSUME TypeOK, Inputs, [Next]_vars,
                      outcome' = "refused", outcome # "refused", calm,
                      snapshot.channel = "usable", snapshot.wants # None,
                      available, offered, snapshot.wants.provider \in Supported
               PROVE  FALSE
    OBVIOUS
  <2>1. Resolved # "broken"
    BY DEF Resolved, Inputs, ReadsInOrder
  <2>2. ProviderAccepted(Wanted)
    <3>1. Wanted.provider \in catalog.available
      BY DEF Inputs, CalmIsUnchanged, IsAvailable, Wanted
    <3>2. catalog.available \subseteq catalog.listed
      BY DEF TypeOK, SoundCatalog
    <3> QED BY <3>1, <3>2 DEF ProviderAccepted, ProviderAvailable, Wanted
  <2>3. ModelOffered(catalog, Wanted)
    BY DEF Inputs, CalmIsUnchanged, IsOffered, ModelOffered, Wanted
  <2> QED BY <2>1, <2>2, <2>3, WhoRefuses DEF Wanted
<1> QED BY <1>1, TypeHolds, InputsHold, PTL DEF Spec, SoundInputsAreAccepted
=============================================================================
