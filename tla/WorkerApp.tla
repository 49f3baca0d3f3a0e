-------------------------------- MODULE WorkerApp --------------------------------
(***************************************************************************)
(* The worker's screen for one update after the other                      *)
(* (warehouse-executive/ExecutiveDashboard.tsx) on top of the outbox: what *)
(* is said is extracted, shown, confirmed through the API, and saved on    *)
(* the device when the network fails.                                      *)
(*                                                                         *)
(* A handler keeps the proposal it was started with (the closure of a      *)
(* React component), but reads and writes the screen there is when it      *)
(* goes on: the request id is a ref, the transaction a state variable.     *)
(* The buttons that leave a proposal work while its handler waits.         *)
(***************************************************************************)
EXTENDS OfflineQueue

CONSTANTS Damages,        \* updates that need a photo before they are confirmed
          None            \* null

ASSUME ScreenAssumption == /\ Damages \subseteq Reviewed
                           /\ None \notin Updates /\ None \notin Requests

VARIABLES screen,         \* what the screen shows
          asked,          \* extractions whose answer is on its way
          said,           \* history: updates that have been dictated
          flow,           \* the handler of each update: confirmProposal, uploadEvidencePhoto
          minted,         \* how many request ids have been given out
          told,           \* history: updates the worker was told are done or safe
          hurried         \* history: a proposal was left while a call of it was out

vars == <<rows, store, saves, loops, screen, asked, said, flow, minted, told, hurried>>

screenVars == <<screen, asked, said, flow, minted, told, hurried>>

Blank == [stage |-> "idle", extraction |-> None, submission |-> "idle",
          submitted |-> None, ref |-> None, photo |-> FALSE]

Screens == [stage : {"idle", "busy", "review", "extracted"},
            extraction : Updates \cup {None},
            submission : {"idle", "creating", "confirming", "complete"},
            submitted : Requests \cup {None},          \* submittedTransaction
            ref : Requests \cup {None},                \* clientRequestIdRef
            photo : BOOLEAN]                           \* evidenceAttached

Flows == [step : {"none", "create", "created", "confirm", "confirmed", "save", "upload"},
          id : Requests \cup {None}, photo : BOOLEAN]

NoFlow == [step |-> "none", id |-> None, photo |-> FALSE]

TypeOK ==
  /\ QueueTypeOK
  /\ screen \in Screens
  /\ asked \subseteq Updates /\ said \subseteq Updates /\ told \subseteq Updates
  /\ flow \in [Updates -> Flows]
  /\ minted \in 0 .. MaxRequests
  /\ hurried \in BOOLEAN

Init ==
  /\ QueueInit
  /\ screen = Blank
  /\ asked = {} /\ said = {} /\ told = {}
  /\ flow = [u \in Updates |-> NoFlow]
  /\ minted = 0
  /\ hurried = FALSE

Calling == asked # {} \/ \E u \in Updates : flow[u].step # "none"

--------------------------------------------------------------------------------
(* Saying it *)

(* startRecording to runExtraction: the screen forgets the proposal before. *)
Dictate(u) ==
  /\ screen.stage = "idle"
  /\ u \notin said
  /\ screen' = [Blank EXCEPT !.stage = "busy", !.photo = screen.photo]
  /\ asked' = asked \cup {u} /\ said' = said \cup {u}
  /\ UNCHANGED <<queueVars, flow, minted, told, hurried>>

(* saveTranscript: the corrected text is extracted again. *)
Retype(u) ==
  /\ screen.stage = "review"
  /\ u \notin said
  /\ screen' = [screen EXCEPT !.stage = "busy"]
  /\ asked' = asked \cup {u} /\ said' = said \cup {u}
  /\ UNCHANGED <<queueVars, flow, minted, told, hurried>>

(* runExtraction shows its answer on whatever screen there is by then. *)
Extracted(u) ==
  /\ u \in asked
  /\ screen' = [screen EXCEPT !.stage = "extracted", !.extraction = u]
  /\ asked' = asked \ {u}
  /\ UNCHANGED <<queueVars, said, flow, minted, told, hurried>>

ExtractionFails(u) ==
  /\ u \in asked
  /\ \E stage \in {"review", "idle"} : screen' = [screen EXCEPT !.stage = stage]
  /\ asked' = asked \ {u}
  /\ UNCHANGED <<queueVars, said, flow, minted, told, hurried>>

(* resetVoice: "Start another update", "Record again", "Cancel extraction" *)
StartAnother ==
  /\ screen # Blank
  /\ screen' = Blank
  /\ hurried' = (hurried \/ Calling)
  /\ UNCHANGED <<queueVars, asked, said, flow, minted, told>>

(* "Correct details" *)
CorrectDetails ==
  /\ screen.stage = "extracted" /\ screen.submission # "complete"
  /\ screen' = [Blank EXCEPT !.stage = "review", !.photo = screen.photo]
  /\ hurried' = (hurried \/ Calling)
  /\ UNCHANGED <<queueVars, asked, said, flow, minted, told>>

--------------------------------------------------------------------------------
(* Confirming it *)

(* clientRequestIdRef.current ??= a new id *)
Ref == IF screen.ref = None THEN minted + 1 ELSE screen.ref
MintRef == /\ Ref <= MaxRequests
           /\ minted' = IF screen.ref = None THEN minted + 1 ELSE minted

(* createPendingTransactionDraft, unless the screen has a transaction. *)
StartFlow(u, photo, ready) ==
  IF screen.submitted = None
  THEN /\ MintRef
       /\ flow' = [flow EXCEPT ![u] = [step |-> "create", id |-> Ref, photo |-> photo]]
       /\ screen' = [screen EXCEPT !.submission = "creating", !.ref = Ref]
  ELSE /\ flow' = [flow EXCEPT ![u] =
            [step |-> ready, id |-> screen.submitted, photo |-> photo]]
       /\ screen' = IF photo THEN screen
                    ELSE [screen EXCEPT !.submission = "confirming"]
       /\ UNCHANGED minted

Showing(u) == /\ screen.stage = "extracted" /\ screen.extraction = u
              /\ flow[u].step = "none"

(* confirmProposal *)
ConfirmProposal(u) ==
  /\ Showing(u)
  /\ screen.submission = "idle"
  /\ u \in Damages => screen.photo
  /\ StartFlow(u, FALSE, "confirm")
  /\ UNCHANGED <<queueVars, asked, said, told, hurried>>

(* uploadEvidencePhoto *)
UploadPhoto(u) ==
  /\ Showing(u)
  /\ screen.submission # "complete"
  /\ u \in Damages /\ ~screen.photo
  /\ StartFlow(u, TRUE, "upload")
  /\ UNCHANGED <<queueVars, asked, said, told, hurried>>

Step(u, step) == flow' = [flow EXCEPT ![u].step = step]
EndFlow(u) == flow' = [flow EXCEPT ![u] = NoFlow]

ServerCreates(u) ==
  /\ flow[u].step = "create"
  /\ rows' = Created(flow[u].id, u)
  /\ Step(u, "created")
  /\ UNCHANGED <<store, saves, loops, screen, asked, said, minted, told, hurried>>

(* setSubmittedTransaction, also when the worker has left the proposal. *)
DraftArrives(u) ==
  /\ flow[u].step = "created"
  /\ screen' = [screen EXCEPT !.submitted = flow[u].id,
                              !.submission = IF flow[u].photo THEN @ ELSE "confirming"]
  /\ Step(u, IF flow[u].photo THEN "upload" ELSE "confirm")
  /\ UNCHANGED <<queueVars, asked, said, minted, told, hurried>>

PhotoStored(u) ==
  /\ flow[u].step = "upload"
  /\ screen' = [screen EXCEPT !.submission = "idle", !.photo = TRUE]
  /\ EndFlow(u)
  /\ UNCHANGED <<queueVars, asked, said, minted, told, hurried>>

(* A failed upload leaves a message and the submission as it is. *)
PhotoFails(u) ==
  /\ flow[u].photo
  /\ EndFlow(u)
  /\ UNCHANGED <<queueVars, screen, asked, said, minted, told, hurried>>

ServerConfirms(u) ==
  /\ flow[u].step = "confirm"
  /\ ConfirmRow(flow[u].id)
  /\ Step(u, "confirmed")
  /\ UNCHANGED <<store, saves, loops, screen, asked, said, minted, told, hurried>>

(* The snapshot and the tasks are fetched, and the screen is reset. *)
Complete(u) ==
  /\ flow[u].step = "confirmed"
  /\ screen' = Blank
  /\ told' = told \cup {u}
  /\ EndFlow(u)
  /\ UNCHANGED <<queueVars, asked, said, minted, hurried>>

OutOrBack(u) == /\ ~flow[u].photo
                /\ flow[u].step \in {"create", "created", "confirm", "confirmed"}

(* An error reply, to the creation, the confirmation or the refreshed       *)
(* snapshot.                                                                *)
Refused(u) ==
  /\ OutOrBack(u)
  /\ screen' = [screen EXCEPT !.submission = "idle"]
  /\ EndFlow(u)
  /\ UNCHANGED <<queueVars, asked, said, minted, told, hurried>>

(* No reply at all. *)
NetworkFails(u) ==
  /\ OutOrBack(u)
  /\ Step(u, "save")
  /\ UNCHANGED <<queueVars, screen, asked, said, minted, told, hurried>>

(* Mutant: a saved update gets an id of its own. *)
SaveUnderNewId(u) ==
  /\ flow[u].step = "save"
  /\ minted < MaxRequests
  /\ minted' = minted + 1
  /\ Enqueue(minted + 1, u)
  /\ screen' = [screen EXCEPT !.submission = "complete", !.ref = minted + 1]
  /\ told' = told \cup {u}
  /\ EndFlow(u)
  /\ UNCHANGED <<rows, loops, asked, said, hurried>>

(* The catch of confirmProposal saves its proposal under the request id     *)
(* the screen has by then, or a new one.                                    *)
SaveOnDevice(u) ==
  /\ flow[u].step = "save"
  /\ MintRef
  /\ EndFlow(u)
  /\ \/ /\ Enqueue(Ref, u)
        /\ screen' = [screen EXCEPT !.submission = "complete", !.ref = Ref]
        /\ told' = told \cup {u}
     \/ /\ screen' = [screen EXCEPT !.submission = "idle", !.ref = Ref]
        /\ UNCHANGED <<store, saves, told>>           \* IndexedDB failed
  /\ UNCHANGED <<rows, loops, asked, said, hurried>>

(* The tab is closed or reloaded: the screen and its handlers are gone. *)
Reload ==
  /\ screen # Blank \/ Calling
  /\ screen' = Blank
  /\ asked' = {}
  /\ flow' = [u \in Updates |-> NoFlow]
  /\ UNCHANGED <<queueVars, said, minted, told, hurried>>

ScreenNext ==
  \/ \E u \in Updates :
       \/ Dictate(u) \/ Retype(u) \/ Extracted(u) \/ ExtractionFails(u)
       \/ ConfirmProposal(u) \/ UploadPhoto(u)
       \/ ServerCreates(u) \/ DraftArrives(u) \/ PhotoStored(u) \/ PhotoFails(u)
       \/ ServerConfirms(u) \/ Complete(u) \/ Refused(u) \/ NetworkFails(u)
       \/ SaveOnDevice(u)
  \/ StartAnother \/ CorrectDetails \/ Reload

Next == ScreenNext \/ (QueueNext /\ UNCHANGED screenVars)

Spec == Init /\ [][Next]_vars

--------------------------------------------------------------------------------
(* Properties *)

RequestsFor(u) == {id \in Requests : u \in rows[id].updates}
                  \cup {x.id : x \in {y \in store : y.update = u}}

(* As long as the worker waits for the answers: an update the screen called *)
(* done or safe is with the server or on the device, under one request id,  *)
(* so it will count once; whatever calls failed, were lost or were          *)
(* repeated, and whatever the synchronizing tabs did meanwhile.             *)
ToldIsKeptOnce ==
  ~hurried => \A u \in told :
    /\ Cardinality(RequestsFor(u)) = 1
    /\ \A id \in RequestsFor(u) : Waits(id) \/ ~Unsent(id)

(* "Every saved update keeps its original `clientRequestId`."               *)
(* (docs/OFFLINE_PWA.md): what is saved has not been sent under another id. *)
(* It does not hold for a hurried worker: StartAnother clears the id a      *)
(* failing confirmProposal reads.                                           *)
SavedKeepsRequestId ==
  \A x \in store : RequestsFor(x.update) \subseteq {x.id}

================================================================================
