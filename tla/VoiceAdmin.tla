----------------------------- MODULE VoiceAdmin ------------------------------
(***************************************************************************)
(* packages/native_agent/runtime/s100_admin.py: switching the vendor voice *)
(* Agent of one dog on, off and back to what it was, and the installation  *)
(* of a release around it, behind the gates of gates.py.  Each switch is a *)
(* service call of its own that may be refused, time out with or without   *)
(* an effect, or succeed without one; the administrator may die between    *)
(* any two.  The state before an activation is kept in one saved file.     *)
(* What the runner does on the X5 is in X5Release.                         *)
(***************************************************************************)
EXTENDS Naturals, Sequences

CONSTANTS None,
          MaxFaults \* bound on failing switches, failing reads and deaths

VARIABLES voice,    \* the four switches of the robot
          unmet,    \* what the robot does not meet of the gates' conditions
          saved,    \* the saved file of the dog
          op,       \* the command the administrator is running, or None
          outcome,  \* what the last command reported
          original, \* what was there before anybody's activation, None: unknown
          honest,   \* no switch was ever acknowledged without taking effect
          faults

voiceVars == << voice, unmet, saved, op, outcome, original, honest, faults >>

Voice == [agent : BOOLEAN, chat : BOOLEAN, mode : 0..2, continuous : BOOLEAN]
Active == [agent |-> TRUE, chat |-> TRUE, mode |-> 0, continuous |-> FALSE]
Off == [agent |-> FALSE, chat |-> FALSE, mode |-> 0, continuous |-> FALSE]

\* The checks of a gate, grouped: safe (X5, faults, battery alarm), energy (charge,
\* charger, network), release (the revision is current and restarted).
Conditions == {"safe", "energy", "release"}

\* evaluate_gate.  A release is installed only while the Agent is off; voice-start
\* names no revision.
MayInstall == "safe" \notin unmet /\ voice = Off
MayActivate(managed) == unmet \subseteq IF managed THEN {} ELSE {"release"}

Request(switch, value) == [switch |-> switch, value |-> value]

\* The requests of enable_voice, disable_agent and apply_voice_state.
Switches(state) ==
  << Request("continuous", state.continuous), Request("mode", state.mode),
     Request("chat", state.chat) >>
AgentOff == << Request("agent", FALSE) >>
Apply(state) ==
  AgentOff \o Switches(state) \o IF state.agent THEN << Request("agent", TRUE) >> ELSE << >>

Disables == {"disable", "disable_any", "rollback"}
Kinds == Disables \cup {"enable", "undo", "restore", "install", "postflight", "remove"}
Outcomes == {"none", "error", "already_ready", "ready", "disabled", "restored", "installed",
             "rolled_back"}

\* A command: what it wants of the voice and the requests it has yet to make.
Requests == [switch : {"agent", "chat", "continuous"}, value : BOOLEAN]
            \cup [switch : {"mode"}, value : 0..2]
Op == [kind : Kinds, state : Voice, todo : Seq(Requests), managed : BOOLEAN]

ASSUME VoiceAssumption == None \notin Voice /\ None \notin Op /\ MaxFaults \in Nat

VoiceTypeOK ==
  /\ voice \in Voice /\ unmet \in SUBSET Conditions /\ saved \in Voice \cup {None} /\ original \in Voice \cup {None}
  /\ op \in Op \cup {None} /\ (op # None => Len(op.todo) <= 5)
  /\ outcome \in Outcomes /\ honest \in BOOLEAN /\ faults \in 0..MaxFaults

VoiceInit ==
  /\ voice \in Voice /\ original = voice /\ unmet \in SUBSET Conditions
  /\ saved = None /\ op = None /\ outcome = "none"
  /\ honest = TRUE /\ faults = 0

Fault == faults < MaxFaults /\ faults' = faults + 1
Launch(kind, state, todo, managed) ==
  op' = [kind |-> kind, state |-> state, todo |-> todo, managed |-> managed] /\ outcome' = "none"
Finish(result) == op' = None /\ outcome' = result

\* Somebody changes the voice settings in the vendor's own way.
User(state) ==
  /\ op = None /\ saved = None /\ state # voice
  /\ voice' = state /\ original' = state /\ outcome' = "none"
  /\ UNCHANGED << unmet, saved, op, faults, honest >>

\* The robot moves, is charged, loses its network or reports a fault.
Surroundings(conditions) ==
  /\ conditions # unmet /\ ("release" \in conditions <=> "release" \in unmet)
  /\ unmet' = conditions
  /\ UNCHANGED << voice, saved, op, outcome, original, honest, faults >>

\* Mutant: a saved file is replaced by what is there now.
EnableBeginAgain(managed) ==
  /\ op = None /\ MayActivate(managed) /\ voice # Active
  /\ saved' = voice /\ Launch("enable", voice, Apply(Active), managed)
  /\ original' = IF original = None THEN voice ELSE original
  /\ UNCHANGED << voice, unmet, faults, honest >>

\* _enable_voice up to the first request: gate, snapshot, saved file.
EnableBegin(managed) ==
  /\ op = None
  /\ \/ /\ ~MayActivate(managed) \/ (voice # Active /\ saved # None) \* saved_state_exists
        /\ outcome' = "error" /\ UNCHANGED << saved, op, original >>
     \/ /\ MayActivate(managed) /\ voice = Active
        /\ outcome' = "already_ready" /\ UNCHANGED << saved, op, original >>
     \/ /\ MayActivate(managed) /\ voice # Active /\ saved = None
        /\ saved' = voice /\ Launch("enable", voice, Apply(Active), managed)
        /\ original' = IF original = None THEN voice ELSE original
  /\ UNCHANGED << voice, unmet, faults, honest >>

\* disable_agent, with the dog's id (and its saved file) or without; it is also
\* the first half of rollback_release.
DisableBegin(kind) ==
  /\ op = None /\ kind \in Disables
  /\ Launch(kind, voice, Apply(Off), FALSE)
  /\ original' = IF saved = None THEN None ELSE original
  /\ UNCHANGED << voice, unmet, saved, faults, honest >>

\* restore_voice: nothing is switched when everything is as it was.
RestoreBegin ==
  /\ op = None /\ saved # None
  /\ Launch("restore", saved, IF voice = saved THEN << >> ELSE Apply(saved), FALSE)
  /\ UNCHANGED << voice, unmet, saved, original, faults, honest >>

\* install_release: gate, then the capsule and the envelope are handed to the X5.
InstallBegin ==
  /\ op = None
  /\ IF MayInstall THEN Launch("install", voice, << >>, TRUE)
     ELSE outcome' = "error" /\ UNCHANGED op
  /\ UNCHANGED << voice, unmet, saved, original, faults, honest >>

\* A snapshot cannot be read, or a file of the release is not what was announced.
Refused ==
  /\ op = None /\ Fault /\ outcome' = "error"
  /\ UNCHANGED << voice, unmet, saved, op, original, honest >>

\* Mutant: an activation that failed is left as it is.
FailWithoutUndo == IF op.kind = "enable" THEN Finish("error") /\ saved' = None
                   ELSE Finish("error") /\ UNCHANGED saved

\* A failed activation is undone; everything else ends with an error.
Fail == /\ IF op.kind = "enable" THEN Launch("undo", op.state, Apply(op.state), FALSE) ELSE Finish("error")
        /\ UNCHANGED saved

Effect(request) == voice' = [voice EXCEPT ![request.switch] = request.value]

Switch ==
  /\ op # None /\ op.todo # << >>
  /\ Effect(Head(op.todo)) /\ op' = [op EXCEPT !.todo = Tail(@)]
  /\ UNCHANGED << unmet, saved, outcome, original, faults, honest >>

SwitchWithoutEffect ==
  /\ op # None /\ op.todo # << >> /\ Fault
  /\ op' = [op EXCEPT !.todo = Tail(@)] /\ honest' = FALSE
  /\ UNCHANGED << voice, unmet, saved, outcome, original >>

\* Rejected, unavailable, or no answer in time (with its effect or without).
SwitchFails ==
  /\ op # None /\ op.todo # << >> /\ Fault
  /\ Effect(Head(op.todo)) \/ UNCHANGED voice
  /\ Fail
  /\ UNCHANGED << unmet, original, honest >>

\* The runner answers ready or rolled_back.
RunnerAnswers ==
  /\ op # None
  /\ \/ /\ op.kind = "install" /\ unmet' = unmet \ {"release"}
        /\ op' = [op EXCEPT !.kind = "postflight"] /\ UNCHANGED outcome
     \/ /\ op.kind = "remove" /\ unmet' = unmet \cup {"release"} /\ Finish("rolled_back")
  /\ UNCHANGED << voice, saved, original, honest, faults >>

\* It fails, or is still at work when the administrator gives up after 50 s.
RunnerFails ==
  /\ op # None /\ op.kind \in {"install", "remove"} /\ Fault
  /\ unmet' \in {unmet, IF op.kind = "install" THEN unmet \ {"release"} ELSE unmet \cup {"release"}}
  /\ Fail
  /\ UNCHANGED << voice, original, honest >>

\* Mutant: the answers of the switches are believed.
VerifyBlindly ==
  /\ op # None /\ op.todo = << >> /\ op.kind \in {"enable", "disable", "restore", "undo"}
  /\ Finish(CASE op.kind = "enable" -> "ready" [] op.kind = "undo" -> "error"
              [] op.kind = "restore" -> "restored" [] OTHER -> "disabled")
  /\ saved' = IF op.kind = "enable" THEN saved ELSE None
  /\ original' = IF op.kind = "disable" THEN Off ELSE original
  /\ UNCHANGED << voice, unmet, faults, honest >>

\* The snapshot after the switches, and what is done with the saved file.
Verify ==
  /\ op # None /\ op.todo = << >>
  /\ \/ /\ op.kind = "enable"
        /\ IF voice = Active /\ MayActivate(op.managed) THEN Finish("ready") /\ UNCHANGED saved
           ELSE Fail
        /\ UNCHANGED original
     \/ /\ op.kind = "undo" /\ Finish("error") /\ saved' = None /\ UNCHANGED original
     \/ /\ op.kind \in Disables
        /\ IF voice = Off
           THEN /\ IF op.kind = "rollback"
                   THEN op' = [op EXCEPT !.kind = "remove"] /\ UNCHANGED outcome
                   ELSE Finish("disabled")
                /\ saved' = IF op.kind = "disable_any" THEN saved ELSE None
                /\ original' = IF saved' = None THEN Off ELSE original
           ELSE Fail /\ UNCHANGED original
     \/ /\ op.kind = "restore"
        /\ IF voice = op.state THEN Finish("restored") /\ saved' = None ELSE Fail
        /\ UNCHANGED original
     \/ /\ op.kind = "postflight"
        /\ Finish(IF "release" \in unmet THEN "error" ELSE "installed")
        /\ UNCHANGED << saved, original >>
  /\ UNCHANGED << voice, unmet, faults, honest >>

\* The snapshot cannot be read.
VerifyFails ==
  /\ op # None /\ op.todo = << >> /\ op.kind \notin {"undo", "install", "remove"} /\ Fault
  /\ Fail
  /\ UNCHANGED << voice, unmet, original, honest >>

Die ==
  /\ op # None /\ Fault
  /\ Finish("none")
  /\ UNCHANGED << voice, unmet, saved, original, honest >>

Begin ==
  \/ \E managed \in BOOLEAN : EnableBegin(managed)
  \/ RestoreBegin \/ InstallBegin \/ Refused
  \/ \E kind \in Disables : DisableBegin(kind)
Work == Switch \/ RunnerAnswers \/ Verify
Trouble == SwitchWithoutEffect \/ SwitchFails \/ RunnerFails \/ VerifyFails \/ Die
World == (\E state \in Voice : User(state)) \/ \E conditions \in SUBSET Conditions : Surroundings(conditions)

VoiceNext == World \/ Begin \/ Work \/ Trouble

VoiceSpec == VoiceInit /\ [][VoiceNext]_voiceVars

-----------------------------------------------------------------------------
\* As long as no service acknowledged a switch it did not make, the saved file
\* is what the dog's voice was before the first activation, never a
\* half-switched state, whatever failed and was repeated since.
SavedIsOriginal == honest /\ saved # None => saved = original

\* Without a saved file nothing is left to restore: the voice is what it was
\* before the activation, or what a disable or its user made of it.  The undo
\* of an activation is not read back, so this too needs honest services.
NothingLeftBehind ==
  honest /\ op = None /\ saved = None /\ original # None => voice = original

\* What a command reports is what the robot shows, even when the services lie
\* about what they did: an Agent reported ready talks on a robot that may be
\* activated then, however its surroundings changed while it was switched on,
\* and a release reported installed or removed was so with the Agent off.
ReportsAreTrue ==
  [][outcome' # outcome =>
       /\ outcome' \in {"ready", "already_ready"} => voice' = Active /\ unmet' \subseteq {"release"}
       /\ outcome' = "disabled" => voice' = Off
       /\ outcome' = "restored" => voice' = saved
       /\ outcome' = "installed" => voice' = Off /\ "release" \notin unmet'
       /\ outcome' = "rolled_back" => voice' = Off /\ saved' = None]_voiceVars

=============================================================================
