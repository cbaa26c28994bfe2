------------------------------ MODULE MobileAi ------------------------------
(***************************************************************************)
(* The personal AI in the mobile app (mobile-app/App.tsx, personal-ai-     *)
(* api.js) and what the server keeps for it (personal_ai_service.py,       *)
(* personal_ai_store.py): the settings form, the configuration, and the    *)
(* gate of which only the ticket inside can leave.  The form is abstracted *)
(* to the provider it shows, the one its list of models was loaded for and *)
(* whether a model is chosen and a key typed in; the names of models and   *)
(* the keys are left out.                                                  *)
(*                                                                         *)
(* An answer that does not arrive opens the gate, but the server goes on   *)
(* with what it was asked for: a save reads the row of the user and writes *)
(* it in another transaction, a test reads the configuration, calls the    *)
(* provider, and then records what came of it.                             *)
(***************************************************************************)
EXTENDS Naturals

CONSTANTS Providers,       \* providers of the personal AI
          Keyless,         \* those that need no key
          InitialProvider, \* what the form shows before anything is loaded
          FirstProvider,   \* the first of the list the server sends
          MaxAiSessions,   \* bound: sign-ins
          MaxAiSteps       \* bound: what the user does

NoProvider == "no provider"

ASSUME AiAssumption ==
  /\ Keyless \subseteq Providers /\ NoProvider \notin Providers
  /\ InitialProvider \in Providers /\ FirstProvider \in Providers
  /\ MaxAiSessions \in Nat /\ MaxAiSteps \in Nat

VARIABLES
  aiSession, aiSessions,   \* the session that is current, 0 for none; how many
  steps,                   \* what the user has done; numbers the tickets
  ticket,                  \* activeTicket of the gate, 0 for none
  aiBusy,                  \* personalAiPendingAction is not empty
  aiRequests,              \* requests the app waits for or the server works on
  form,                    \* llmProvider, llmModels, llmModel, llmConfigSource, llmApiKey
  ready,                   \* personalAiTestReady
  dirty,                   \* personalAiConfigDirty
  stored,                  \* the server: the row of this user
  fallback,                \* the server: the provider of the administrator's default
  chosen,                  \* history: the provider of the last edit that is not saved
  overrun,                 \* history: a load began over an unsaved edit, on resuming
  swapped,                 \* history: a save was answered with another provider
  foreign                  \* history: a change that the form does not wait for

aiServer == <<stored, fallback>>
aiHistory == <<chosen, overrun, swapped>>
aiVars == <<aiSession, aiSessions, steps, ticket, aiBusy, aiRequests, form, ready, dirty,
            aiServer, aiHistory, foreign>>

\* No row yet, and the answer nobody has.
NoRow == [provider |-> NoProvider, key |-> FALSE, ready |-> FALSE]
NoConfig == [provider |-> NoProvider, default |-> FALSE, ready |-> FALSE]
Rows == [provider : Providers, key : BOOLEAN, ready : BOOLEAN]

\* _is_configured
Usable(row) == row.provider \in Providers /\ (row.key \/ row.provider \in Keyless)

\* _effective_config: the row if it can be used, else the default of the
\* administrator, which counts as ready, else nothing.
Effective ==
  IF Usable(stored)
  THEN [provider |-> stored.provider, default |-> FALSE, ready |-> stored.ready]
  ELSE [provider |-> fallback, default |-> fallback # NoProvider,
        ready |-> fallback # NoProvider]

\* offered: the list of providers has been loaded.
EmptyForm == [provider |-> InitialProvider, modelsOf |-> NoProvider, model |-> FALSE,
              default |-> FALSE, draft |-> FALSE, offered |-> FALSE]

AiInit ==
  /\ aiSession = 0 /\ aiSessions = 0 /\ steps = 0 /\ ticket = 0 /\ aiBusy = FALSE
  /\ aiRequests = {} /\ form = EmptyForm /\ ready = FALSE /\ dirty = FALSE
  /\ stored \in Rows \cup {NoRow} /\ fallback \in Providers \cup {NoProvider}
  /\ chosen = NoProvider /\ overrun = FALSE /\ swapped = FALSE /\ foreign = FALSE

AiStep == steps < MaxAiSteps /\ steps' = steps + 1

\* isCurrent
IsOurs(r) == r.session = aiSession
\* The app waits for the answer.
Awaited(r) == IsOurs(r) /\ ~r.lost

\* Whoever is in is not asked.
MutIsFree == TRUE
\* tryEnter
IsFree == ticket = 0

\* key: a key goes with it.  saw, got: the row and the configuration as the server
\* has read them for it.
AiRequest(what, s) ==
  [id |-> steps + 1, what |-> what, session |-> s, provider |-> form.provider,
   key |-> form.draft, stage |-> "sent", lost |-> FALSE, saw |-> NoRow, got |-> NoConfig]

BeginAi(what, s) ==
  /\ IsFree
  /\ ticket' = steps + 1 /\ aiBusy' = TRUE
  /\ aiRequests' = aiRequests \cup {AiRequest(what, s)}

-----------------------------------------------------------------------------
\* onLoginCommitted opens the gate, and the effect on the token loads.
AiSignIn ==
  /\ aiSession = 0 /\ aiSessions < MaxAiSessions /\ AiStep
  /\ aiSession' = aiSessions + 1 /\ aiSessions' = aiSessions + 1
  /\ BeginAi("load", aiSessions + 1)
  /\ ready' = FALSE /\ dirty' = FALSE /\ foreign' = FALSE
  /\ UNCHANGED <<form, aiServer, aiHistory>>

\* setPersonalAiConfigDirty(false)
NothingUnsaved == dirty' = FALSE /\ chosen' = NoProvider /\ overrun' = FALSE

\* onSessionReset
AiSignOut ==
  /\ aiSession # 0
  /\ aiSession' = 0 /\ ticket' = 0 /\ aiBusy' = FALSE
  /\ form' = EmptyForm /\ ready' = FALSE /\ NothingUnsaved
  /\ swapped' = FALSE
  /\ UNCHANGED <<aiSessions, steps, aiRequests, aiServer, foreign>>

\* loadPersonalAi.  Opening the settings looks at the flag of its own render; the
\* listener of AppState is that of the render in which the session began, when
\* nothing had been edited.
LoadAi(resumed) ==
  /\ aiSession # 0 /\ AiStep /\ (resumed \/ ~dirty)
  /\ BeginAi("load", aiSession) /\ ready' = FALSE
  /\ overrun' = (overrun \/ dirty)
  /\ UNCHANGED <<aiSession, aiSessions, form, dirty, aiServer, chosen, swapped, foreign>>

\* The form can be changed at any time.
MutMayEdit == aiSession # 0
\* Chips and key are disabled while something is pending.
MayEdit == aiSession # 0 /\ ~aiBusy

\* Another provider: its models, its key and its test are still to come.
ChooseProvider(p) ==
  /\ form.offered /\ p # form.provider
  /\ form' = [EmptyForm EXCEPT !.provider = p, !.offered = TRUE]
  /\ chosen' = p /\ swapped' = FALSE
\* A model of the list.
ChooseModel ==
  /\ form.modelsOf # NoProvider
  /\ form' = [form EXCEPT !.model = TRUE]
  /\ chosen' = form.provider /\ UNCHANGED swapped
TypeKey(draft) ==
  /\ form' = [form EXCEPT !.draft = draft]
  /\ chosen' = form.provider /\ UNCHANGED swapped

EditAi ==
  /\ MayEdit /\ AiStep
  /\ \/ \E p \in Providers : ChooseProvider(p)
     \/ ChooseModel
     \/ \E draft \in BOOLEAN : TypeKey(draft)
  /\ dirty' = TRUE /\ ready' = FALSE /\ overrun' = FALSE
  /\ UNCHANGED <<aiSession, aiSessions, ticket, aiBusy, aiRequests, aiServer, foreign>>

\* savePersonalAiConfig, loadPersonalAiModels, testPersonalAiConnection, askAi;
\* the default of the administrator is not tested, a save takes the key along.
UseAi(what) ==
  /\ aiSession # 0 /\ ~aiBusy /\ form.provider # NoProvider /\ AiStep
  /\ what \in {"save", "test"} => form.model
  /\ what = "test" => ~dirty /\ ~form.default
  /\ what = "chat" => ready
  /\ BeginAi(what, aiSession)
  /\ form' = [form EXCEPT !.draft = @ /\ what # "save"]
  /\ ready' = (ready /\ what \in {"models", "chat"})
  /\ UNCHANGED <<aiSession, aiSessions, dirty, aiServer, aiHistory, foreign>>

-----------------------------------------------------------------------------
(* The server, which does not know whether the app still waits. *)

\* The answer is on its way, if somebody waits for it.
Goes(r, next) == aiRequests' = (aiRequests \ {r}) \cup (IF r.lost THEN {} ELSE {next})
ServerOnly == UNCHANGED <<aiSession, aiSessions, steps, ticket, aiBusy, form, ready, dirty,
                          fallback, aiHistory>>

\* save_config reads the row, test_connection the configuration; there must be one.
AiReads(r) ==
  /\ r.stage = "sent" /\ r.what \in {"save", "test"}
  /\ r.what = "test" => Effective.provider # NoProvider
  /\ aiRequests' = (aiRequests \ {r})
                     \cup {[r EXCEPT !.stage = "read", !.saw = stored, !.got = Effective]}
  /\ ServerOnly /\ UNCHANGED <<stored, foreign>>

\* The key of the row stays with its provider, the result of the last test with
\* what was tested; same: the model is that of the row.
Saved(r, same) ==
  LET kept == r.saw.provider = r.provider
  IN  [provider |-> r.provider, key |-> r.key \/ (kept /\ r.saw.key),
       ready |-> kept /\ ~r.key /\ same /\ r.saw.ready]

SaveWrites(r, same) ==
  /\ r.what = "save" /\ r.stage = "read"
  /\ stored' = Saved(r, same)
  /\ Goes(r, [r EXCEPT !.stage = "written"])
  /\ foreign' = (foreign \/ ~Awaited(r))
  /\ ServerOnly

\* record_test: whatever the row has become meanwhile.  The default of the
\* administrator has no row.
TestRecords(r, works) ==
  /\ r.what = "test" /\ r.stage = "read"
  /\ stored' = IF r.got.default THEN stored ELSE [stored EXCEPT !.ready = works]
  /\ Goes(r, [r EXCEPT !.stage = "handled", !.got = [@ EXCEPT !.ready = works]])
  /\ foreign' = (foreign \/ ~Awaited(r))
  /\ ServerOnly

\* What is only read; a save is answered with the configuration that is in force
\* now, a question only when that is ready.
AiReplies(r) ==
  /\ \/ r.what \in {"load", "models"} /\ r.stage = "sent"
     \/ r.what = "chat" /\ r.stage = "sent" /\ Effective.ready
     \/ r.what = "save" /\ r.stage = "written"
  /\ aiRequests' = (aiRequests \ {r})
                     \cup {[r EXCEPT !.stage = "handled", !.got = Effective]}
  /\ ServerOnly /\ UNCHANGED <<stored, foreign>>

\* Another client of the same user, and the administrator.
ChangedElsewhere(row) ==
  /\ AiStep /\ stored' = row /\ foreign' = TRUE
  /\ UNCHANGED <<aiSession, aiSessions, ticket, aiBusy, aiRequests, form, ready, dirty,
                 fallback, aiHistory>>
DefaultChanged(p) ==
  /\ AiStep /\ fallback' = p /\ foreign' = TRUE
  /\ UNCHANGED <<aiSession, aiSessions, ticket, aiBusy, aiRequests, form, ready, dirty,
                 stored, aiHistory>>

-----------------------------------------------------------------------------
\* The finally block: what belongs to a former session opens nothing.
LeaveGate(r) ==
  /\ ticket' = IF IsOurs(r) /\ ticket = r.id THEN 0 ELSE ticket
  /\ aiBusy' = (aiBusy /\ ~IsOurs(r))

AiAnswered(r, what) ==
  /\ r.what = what /\ r.stage = "handled" /\ Awaited(r)
  /\ aiRequests' = aiRequests \ {r} /\ LeaveGate(r)
  /\ UNCHANGED <<aiSession, aiSessions, steps, aiServer>>

\* The callbacks of applyProtectedResponse.
LoadAnswered(r) ==
  /\ AiAnswered(r, "load")
  /\ form' = [form EXCEPT !.provider = IF r.got.provider = NoProvider THEN FirstProvider
                                       ELSE r.got.provider,
                          !.modelsOf = r.got.provider, !.model = r.got.provider # NoProvider,
                          !.default = r.got.default, !.offered = TRUE]
  /\ ready' = (r.got.default /\ r.got.ready)
  /\ swapped' = FALSE /\ foreign' = (foreign /\ r.got # Effective)
  /\ UNCHANGED <<dirty, chosen, overrun>>

SaveAnswered(r) ==
  /\ AiAnswered(r, "save")
  /\ form' = [form EXCEPT !.provider = r.got.provider, !.model = r.got.provider # NoProvider,
                          !.default = r.got.default]
  /\ NothingUnsaved /\ swapped' = (swapped \/ r.got.provider # r.provider)
  /\ UNCHANGED <<ready, foreign>>

\* works: there is a list; listed: the chosen model is in it.
ModelsAnswered(r, works, listed) ==
  /\ AiAnswered(r, "models")
  /\ form' = [form EXCEPT !.modelsOf = IF works THEN r.provider ELSE NoProvider,
                          !.model = @ /\ (works => listed)]
  /\ swapped' = FALSE
  /\ UNCHANGED <<ready, dirty, chosen, overrun, foreign>>

TestAnswered(r) ==
  /\ AiAnswered(r, "test")
  /\ form' = [form EXCEPT !.provider = r.got.provider, !.model = TRUE]
  /\ ready' = r.got.ready
  /\ UNCHANGED <<dirty, aiHistory, foreign>>

ChatAnswered(r) ==
  /\ AiAnswered(r, "chat")
  /\ form' = [form EXCEPT !.provider = r.got.provider, !.model = TRUE]
  /\ UNCHANGED <<ready, dirty, aiHistory, foreign>>

\* The answer is for a session that is over.
AnsweredLate(r) ==
  /\ r.stage = "handled" /\ ~IsOurs(r)
  /\ aiRequests' = aiRequests \ {r} /\ LeaveGate(r)
  /\ UNCHANGED <<aiSession, aiSessions, steps, form, ready, dirty, aiServer, aiHistory,
                 foreign>>

\* The server still has something to write.
GoesOn(r) == r.what \in {"save", "test"} /\ r.stage \in {"sent", "read"}

\* Refused, or no answer comes: the catch and finally blocks.
AiFails(r) ==
  /\ ~r.lost
  /\ aiRequests' = (aiRequests \ {r})
                     \cup (IF GoesOn(r) THEN {[r EXCEPT !.lost = TRUE]} ELSE {})
  /\ ready' = (ready /\ ~(IsOurs(r) /\ r.what = "test"))
  /\ LeaveGate(r)
  /\ UNCHANGED <<aiSession, aiSessions, steps, form, dirty, aiServer, aiHistory, foreign>>

-----------------------------------------------------------------------------
AiUser ==
  \/ AiSignIn \/ AiSignOut \/ EditAi
  \/ \E resumed \in BOOLEAN : LoadAi(resumed)
  \/ \E what \in {"save", "models", "test", "chat"} : UseAi(what)

AiOthers ==
  \/ \E row \in Rows : ChangedElsewhere(row)
  \/ \E p \in Providers \cup {NoProvider} : DefaultChanged(p)

AiNetwork ==
  \E r \in aiRequests :
    \/ AiReads(r) \/ AiReplies(r) \/ AiFails(r) \/ AnsweredLate(r)
    \/ \E same \in BOOLEAN : SaveWrites(r, same)
    \/ \E works \in BOOLEAN : TestRecords(r, works)
    \/ LoadAnswered(r) \/ SaveAnswered(r) \/ TestAnswered(r) \/ ChatAnswered(r)
    \/ \E works, listed \in BOOLEAN : ModelsAnswered(r, works, listed)

AiNext == AiUser \/ AiOthers \/ AiNetwork
AiSpec == AiInit /\ [][AiNext]_aiVars

-----------------------------------------------------------------------------
\* The gate is closed and the form says that it is busy exactly while the app
\* waits for an answer of the current session, and then it waits for only one -
\* whatever the server still works on.
AiGateIsHeld ==
  /\ aiBusy <=> ticket # 0
  /\ {r.id : r \in {q \in aiRequests : Awaited(q)}} = {ticket} \ {0}

\* Questions go to the AI only while the configuration that is in force is one the
\* server reported ready in this session - unless somebody else has changed it
\* since, or a request the app no longer waits for has: a test whose answer was
\* lost records its result over that of a later test.
ReadyIsStored == ready /\ ~foreign => Effective.ready

\* The models on offer are those of the provider that is chosen (the comparison
\* after the await is between two values of one render and always holds) - unless
\* a save was answered with another provider, as the server does when what it has
\* saved has no key; the callback keeps the list of models.
ModelsAreOfProvider ==
  ~foreign /\ ~swapped => form.modelsOf \in {NoProvider, form.provider}

\* A provider that was chosen and not saved yet stays in the form, whatever
\* answers come late - but for a load that began because the app came back to
\* the foreground, which does not look at the unsaved edit.
UnsavedIsKept == dirty /\ ~overrun => form.provider = chosen
=============================================================================
