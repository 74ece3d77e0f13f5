------------------------------ MODULE NewSession ------------------------------
(***************************************************************************)
(* What one run of `prepare-commits` must know before it may begin a new   *)
(* session: the snapshot of the configuration, the compatible environment  *)
(* of Paseo, the channel of notifications and the settings verified by the *)
(* catalog of the daemon - and what of it a session already begun may do   *)
(* without.                                                                *)
(*                                                                         *)
(* The file, the installation and the catalog change at any moment.  The   *)
(* reads that find a workspace and a session are one step here, and what   *)
(* becomes of an accompanied session is one step too: CommitPreparation    *)
(* models both.                                                            *)
(***************************************************************************)
CONSTANTS
  Settings,    \* what a file may ask for: provider, model, reasoning
  Supported,   \* providers with a proven mode of full access
  None

ASSUME NoneAssumption == None \notin Settings
ASSUME SettingsAssumption == \A x \in Settings : DOMAIN x = {"provider", "model", "reasoning"}

VARIABLES
  file,        \* the configuration on disk
  paseo,       \* the installed CLI and the daemon it reaches
  catalog,     \* what `provider ls` and `provider models` would answer
  session,     \* an own session of the change is active
  pc,          \* what the run does next
  snapshot,    \* configuration.ReadSnapshot
  version,     \* answer of `paseo --version`
  channel,     \* delivery.resolved, delivery.err
  verified,    \* inputs.settings while prepared.valid(), or None
  request,     \* the mutation sent last
  outcome,     \* how the run ended
  calm,        \* history: nothing but the run has moved since its start
  present,     \* history: the session has been active since the start
  available,   \* history: the provider asked for was available some time
  offered      \* history: the model and the reasoning were offered some time

world   == <<file, paseo, catalog, session>>
history == <<calm, present, available, offered>>
vars    == <<file, paseo, catalog, session, pc, snapshot, version, channel, verified, request,
             outcome, calm, present, available, offered>>
-----------------------------------------------------------------------------
Providers  == {x.provider : x \in Settings}
Models     == {x.model : x \in Settings}
Reasonings == {x.reasoning : x \in Settings} \ {None}

\* None stands for an unreadable file and for sections that are missing or
\* malformed; an unreadable file spoils both sections.
File == [channel: {"usable", "broken"}, wants: Settings \cup {None}]

\* "other": of another version; a daemon also stopped, unreachable, remote or of
\* another user.
Installation == [cli: {"active", "other"}, daemon: {"active", "other"}]

Catalog ==
  [listed: SUBSET Providers, available: SUBSET Providers,
   models: SUBSET Models, thinking: [Models -> SUBSET Reasonings]]

SoundCatalog(c) ==
  /\ c.available \subseteq c.listed
  /\ \A m \in Models \ c.models : c.thinking[m] = {}

Request == [op: {"none", "workspace", "run", "archive"}, settings: Settings \cup {None}]

TypeOK ==
  /\ file \in File
  /\ paseo \in Installation
  /\ catalog \in Catalog /\ SoundCatalog(catalog)
  /\ session \in BOOLEAN
  /\ pc \in {"off", "version", "status", "look", "tree", "channel", "settings", "providers",
             "models", "workspace", "session", "call", "accompany"}
  /\ snapshot \in File
  /\ version \in {"active", "other"}
  /\ channel \in {"unresolved", "ready", "broken"}
  /\ verified \in Settings \cup {None}
  /\ request \in Request
  /\ outcome \in {"none", "noWork", "refused", "obstacle", "done"}
  /\ calm \in BOOLEAN /\ present \in BOOLEAN
  /\ available \in BOOLEAN /\ offered \in BOOLEAN

NoSnapshot == [channel |-> "broken", wants |-> None]
NoRequest  == [op |-> "none", settings |-> None]

Init ==
  /\ file \in File
  /\ paseo \in Installation
  /\ catalog \in {c \in Catalog : SoundCatalog(c)}
  /\ session \in BOOLEAN
  /\ pc = "off"
  /\ snapshot = NoSnapshot
  /\ version = "other"
  /\ channel = "unresolved"
  /\ verified = None
  /\ request = NoRequest
  /\ outcome = "none"
  /\ calm = FALSE /\ present = FALSE
  /\ available = FALSE /\ offered = FALSE
-----------------------------------------------------------------------------
(* What the daemon says of the settings x.                                 *)

Compatible(i) == i.cli = "active" /\ i.daemon = "active"

\* As it is, for the history of the run:
IsAvailable(c, x) == x # None /\ x.provider \in c.available

IsOffered(c, x) ==
  x # None /\ x.model \in c.models /\ x.reasoning \in c.thinking[x.model] \cup {None}

\* as the run takes it.
ProviderAvailable(c, x) == x.provider \in c.available

\* Mutant: a configuration without reasoning asks for none that is listed.
ReasoningRequired(c, x) == x.model \in c.models /\ x.reasoning \in c.thinking[x.model]

ModelOffered(c, x) ==
  /\ x.model \in c.models
  /\ x.reasoning # None => x.reasoning \in c.thinking[x.model]

Goto(location) == pc' = location

\* The process ends and forgets everything.
End(how) ==
  /\ Goto("off")
  /\ outcome' = how
  /\ snapshot' = NoSnapshot
  /\ version' = "other"
  /\ channel' = "unresolved"
  /\ verified' = None
  /\ request' = NoRequest
  /\ calm' = FALSE /\ present' = FALSE
  /\ available' = FALSE /\ offered' = FALSE

OnlyMoves == UNCHANGED <<world, snapshot, version, channel, verified, request, history>>

\* A step of the run that changes nothing but its place.
Proceed(location) == Goto(location) /\ OnlyMoves /\ UNCHANGED outcome
Stop(how)         == End(how) /\ UNCHANGED world
-----------------------------------------------------------------------------
(* The start of a run.                                                     *)

\* readConfiguration: the file is read once, an error of it is kept.
ReadSnapshot ==
  /\ pc = "off"
  /\ Goto("version")
  /\ snapshot' = file
  /\ outcome' = "none"
  /\ calm' = TRUE
  /\ present' = session
  /\ available' = IsAvailable(catalog, file.wants)
  /\ offered' = IsOffered(catalog, file.wants)
  /\ UNCHANGED <<world, version, channel, verified, request>>

\* CheckEnvironment: `paseo --version`,
ReadVersion ==
  /\ pc = "version"
  /\ \/ /\ paseo.cli = "active"
        /\ Goto("status")
        /\ version' = paseo.cli
        /\ UNCHANGED <<world, snapshot, channel, verified, request, outcome, history>>
     \/ paseo.cli # "active" /\ Stop("obstacle")

\* Mutant: the version in the status is not compared.
VersionIgnored == paseo.daemon = "active"

StatusAccepted == paseo.cli = version /\ paseo.daemon = "active"

\* Mutant: the inputs of a session are a condition of every run.
InputsFirst == "channel"

AfterCheck == "look"

\* then `paseo status`.
ReadStatus ==
  /\ pc = "status"
  /\ \/ StatusAccepted /\ Proceed(AfterCheck)
     \/ ~ StatusAccepted /\ Stop("obstacle")
-----------------------------------------------------------------------------
(* One iteration of the loop.                                              *)

\* A session that is found is accompanied: prepared inputs are dropped.
Look ==
  /\ pc = "look"
  /\ Goto(IF session THEN "accompany" ELSE "tree")
  /\ verified' = IF session THEN None ELSE verified
  /\ UNCHANGED <<world, snapshot, version, channel, request, outcome, calm, present, available,
                 offered>>

NotPrepared == verified = None

\* selectAbsentSessionAction.
ReadTree ==
  /\ pc = "tree"
  /\ \/ Stop("noWork")                                                \* clean
     \/ NotPrepared /\ Proceed("channel")
     \/ ~ NotPrepared /\ \E place \in {"workspace", "session"} : Proceed(place)

\* Mutant: the section of the snapshot is taken for an adapter.
SnapshotResolved == snapshot.channel

Resolved ==
  IF channel # "unresolved" THEN channel
  ELSE IF snapshot.channel = "usable" THEN "ready" ELSE "broken"

\* PrepareNewSession: first the channel of interventions,
ResolveChannel ==
  /\ pc = "channel"
  /\ \/ /\ Resolved # "broken"
        /\ channel' = Resolved
        /\ Goto("settings")
        /\ UNCHANGED <<world, snapshot, version, verified, request, outcome, history>>
     \/ Resolved = "broken" /\ Stop("refused")

\* Mutant: the settings are read from the file on disk.
FileNow == file.wants

Wanted == snapshot.wants

\* then the section of the snapshot,
DecodeSettings ==
  /\ pc = "settings"
  /\ \/ Wanted = None /\ Stop("refused")
     \/ Wanted # None /\ Proceed("providers")

\* Mutant: a provider that is listed is good enough.
ListedIsEnough(x) == x.provider \in catalog.listed /\ x.provider \in Supported

ProviderAccepted(x) ==
  /\ x.provider \in catalog.listed
  /\ x.provider \in Supported
  /\ ProviderAvailable(catalog, x)

\* VerifySessionSettings: `provider ls`,
ReadProviders ==
  /\ pc = "providers"
  /\ IF Wanted # None /\ ProviderAccepted(Wanted) THEN Proceed("models") ELSE Stop("refused")

\* and `provider models`.
ReadModels ==
  /\ pc = "models"
  /\ \/ /\ Wanted # None /\ ModelOffered(catalog, Wanted)
        /\ verified' = Wanted
        /\ Goto("look")
        /\ UNCHANGED <<world, snapshot, version, channel, request, outcome, history>>
     \/ /\ ~ (Wanted # None /\ ModelOffered(catalog, Wanted))
        /\ Stop("refused")
-----------------------------------------------------------------------------
(* Influence.                                                              *)

Send(op, x) ==
  /\ Goto("call")
  /\ request' = [op |-> op, settings |-> x]
  /\ UNCHANGED <<world, snapshot, version, channel, verified, outcome, history>>

\* The gateway reads again what it is about to rely on.
CreateWorkspace ==
  /\ pc = "workspace"
  /\ Send("workspace", None) \/ Proceed("look")

CreateOwnSession ==
  /\ pc = "session"
  /\ \/ ~ session /\ Send("run", verified)
     \/ Proceed("look")

\* An answer that proves nothing ends the run: ErrRunOutcomeUnknown.
ReceiveAnswer ==
  /\ pc = "call"
  /\ \/ /\ request.op = "workspace"
        /\ Proceed("look")
     \/ /\ request.op = "run"
        /\ session' = TRUE
        /\ Goto("accompany")
        /\ verified' = None
        /\ UNCHANGED <<file, paseo, catalog, snapshot, version, channel, request, outcome, history>>
     \/ /\ request.op = "archive"
        /\ session' = FALSE
        /\ End("done")
        /\ UNCHANGED <<file, paseo, catalog>>
     \/ Stop("obstacle")

\* Waiting, watching and looking again change nothing here: no way leads back to
\* a run without a session.
Accompany ==
  /\ pc = "accompany"
  /\ \/ session /\ Send("archive", None)
     \/ ~ session /\ Stop("done")

\* Any read fails.
SourceFails == pc \notin {"off", "call", "channel", "settings"} /\ Stop("obstacle")
-----------------------------------------------------------------------------
(* Everybody else.                                                         *)

Others == calm' = FALSE /\ UNCHANGED <<pc, snapshot, version, channel, verified, request, outcome>>

UserEditsFile ==
  /\ \/ \E c \in {"usable", "broken"} : file' = [file EXCEPT !.channel = c]
     \/ \E x \in Settings \cup {None} : file' = [file EXCEPT !.wants = x]
  /\ UNCHANGED <<paseo, catalog, session, present, available, offered>>
  /\ Others

\* The CLI or the daemon is replaced, stopped or started.
PaseoChanges ==
  /\ \/ \E v \in {"active", "other"} : paseo' = [paseo EXCEPT !.cli = v]
     \/ \E v \in {"active", "other"} : paseo' = [paseo EXCEPT !.daemon = v]
  /\ UNCHANGED <<file, catalog, session, present, available, offered>>
  /\ Others

ProviderChanges ==
  \/ \E listed \in SUBSET Providers : catalog' = [catalog EXCEPT !.listed = listed]
  \/ \E ready \in SUBSET Providers : catalog' = [catalog EXCEPT !.available = ready]

ModelsChange ==
  \E models \in SUBSET Models, thinking \in [Models -> SUBSET Reasonings] :
    catalog' = [catalog EXCEPT !.models = models, !.thinking = thinking]

CatalogChanges ==
  /\ ProviderChanges \/ ModelsChange
  /\ SoundCatalog(catalog')
  /\ available' = (available \/ (pc # "off" /\ IsAvailable(catalog', snapshot.wants)))
  /\ offered' = (offered \/ (pc # "off" /\ IsOffered(catalog', snapshot.wants)))
  /\ UNCHANGED <<file, paseo, session, present>>
  /\ Others

\* A late `run` is executed, the user archives.
SessionChanges ==
  /\ session' = ~ session
  /\ present' = FALSE
  /\ UNCHANGED <<file, paseo, catalog, available, offered>>
  /\ Others

Next ==
  \/ ReadSnapshot \/ ReadVersion \/ ReadStatus \/ Look \/ ReadTree
  \/ ResolveChannel \/ DecodeSettings \/ ReadProviders \/ ReadModels
  \/ CreateWorkspace \/ CreateOwnSession \/ ReceiveAnswer
  \/ Accompany \/ SourceFails
  \/ UserEditsFile \/ PaseoChanges \/ CatalogChanges \/ SessionChanges

Spec == Init /\ [][Next]_vars
-----------------------------------------------------------------------------
\* A mutation is sent to Paseo.
Sends(ops) == pc # "call" /\ pc' = "call" /\ request'.op \in ops

\* "Before any mutating command for a new session": neither a workspace nor a
\* session is created unless the run has a channel and the daemon did, since
\* the run began, offer the provider, the model and the reasoning asked for.
InputsBeforeInfluence ==
  [][Sends({"workspace", "run"}) =>
       /\ channel = "ready"
       /\ available /\ offered
       /\ snapshot.wants.provider \in Supported]_vars

\* "A change of the file applies after a restart only": a session is given
\* what the file asked for when the run began, whatever it says by now.
RunGivesSnapshot ==
  [][Sends({"run"}) => request'.settings = snapshot.wants]_vars

\* "The snapshot, the settings and the channel are no condition of observing
\* an existing session": a run under which a session was active all the time
\* is never refused for its configuration or by the catalog.
RecoveryNeedsNoInputs ==
  [][outcome' = "refused" /\ outcome # "refused" => ~ present]_vars

\* The two reads of CheckEnvironment prove that the CLI and the daemon are of
\* the active contract together, also when either is replaced in between.
CheckedIsCompatible ==
  [][pc = "status" /\ pc' \notin {"status", "off"} => Compatible(paseo)]_vars

\* No false refusal: when nothing moves and the file asks, with a channel, for
\* settings that are supported and offered, the run is not refused.
SoundInputsAreAccepted ==
  [][outcome' = "refused" /\ outcome # "refused" /\ calm =>
       ~ /\ snapshot.channel = "usable" /\ snapshot.wants # None
         /\ available /\ offered /\ snapshot.wants.provider \in Supported]_vars
=============================================================================
