---------------------------- MODULE AppSessions -----------------------------
(***************************************************************************)
(* The application adapters other than the agent's (src/apps, state_reuse, *)
(* bridge/capture): what each keeps between calls beside the state store.  *)
(* A context window cuts a stream of tokens into captures; a workflow      *)
(* checkpoints the states of its steps and resumes from any checkpoint; a  *)
(* chat session and the bridge copy the store's ids; a tool session, a set *)
(* of document caches and a memory cache answer from what they recorded.   *)
(*                                                                         *)
(* The store is only its set of states here: they are committed and        *)
(* collected while the adapters hold their ids.  A hash is the value it is *)
(* the hash of.  All of it is memory of one process.                       *)
(*                                                                         *)
(* A definition whose name starts with Wrong is a mistake the definition   *)
(* after it could have had.                                                *)
(***************************************************************************)
EXTENDS Naturals, Sequences, FiniteSets, SequencesExt, Functions

CONSTANTS
    Words,      \* what is pushed into a window
    States,     \* states of the store
    Document,   \* documents, with the cache each is captured with
    Flows,      \* workflow ids
    Absent,     \* the None of an Option
    WindowSizes, \* the max_tokens of windows
    MaxPushed,  \* bound: tokens pushed, and slides
    MaxSteps,   \* bound: steps, checkpoints, documents, forks counted
    Memory,     \* manifests: what a memory cache holds, and what is asked for
    Tolerance   \* tolerances of similarity_check, as <<num, den>>

ASSUME WindowAssumption == WindowSizes \subseteq Nat \ {0}

VARIABLES
    window,     \* ContextWindow, and the tokens pushed into it so far
    workflow,   \* WorkflowStateMachine
    checkpoints, \* the WorkflowSnapshots taken
    present,    \* the states of the store
    chat,       \* ChatSession
    tool,       \* ToolSession
    library,    \* the DocumentCaches captured, in order
    context,    \* RAGContext: the documents composed last and their caches
    answer      \* the last answer of find, verify_execution or similarity_check

appVars ==
    <<window, workflow, checkpoints, present, chat, tool, library, context, answer>>
recordVars == <<tool, library, context, answer>>
chatVars == <<present, chat>>
flowVars == <<workflow, checkpoints>>

-----------------------------------------------------------------------------
(* What is computed from what was recorded.                                *)

(* graft: the documents' caches one after the other. *)
Graft(docs) == FlattenSeq([i \in DOMAIN docs |-> docs[i].cache])

(* RAGContext::find: the first cache of the document. *)
FindDocument(docs, d) ==
    LET at == {i \in DOMAIN docs : docs[i].document = d}
    IN  IF at = {} THEN Absent ELSE docs[CHOOSE i \in at : \A j \in at : i =< j]

(* verify_execution: it looks at no hash, only whether one was recorded. *)
Verified(t) == t.state # Absent /\ t.after # Absent

(* detect_fork_opportunity, for a tolerance of num/den: the pages count as *)
(* sets, so their order and their number of uses make no difference.       *)
Reusable(requested, existing, num, den) ==
    LET r == Range(requested.pages)
        e == Range(existing.pages)
        total == IF Cardinality(r) > Cardinality(e) THEN Cardinality(r) ELSE Cardinality(e)
    IN  /\ num =< den
        /\ requested.identity = existing.identity
        /\ (total - Cardinality(r \cap e)) * den =< num * total

-----------------------------------------------------------------------------
(* A context window.                                                       *)

NewWindow(n) == [max |-> n, active |-> <<>>, count |-> 0, captures |-> <<>>,
                 next |-> 0, pushed |-> <<>>]

(* Mistake: the count of tokens is not reset. *)
WrongSlid(w) ==
    [w EXCEPT !.captures = Append(@, [index |-> w.next, count |-> w.count, state |-> w.active]),
              !.next = @ + 1, !.active = <<>>]

(* slide: capture what is there, even nothing, and start afresh. *)
Slid(w) ==
    [w EXCEPT !.captures = Append(@, [index |-> w.next, count |-> w.count, state |-> w.active]),
              !.next = @ + 1, !.active = <<>>, !.count = 0]

Pushed(w, t) == [w EXCEPT !.active = Append(@, t), !.count = @ + 1,
                          !.pushed = Append(@, t)]

-----------------------------------------------------------------------------
AppInit ==
    /\ window \in {NewWindow(n) : n \in WindowSizes}
    /\ workflow \in [id : Flows, steps : {<<>>}]
    /\ checkpoints = {}
    /\ present = {}
    /\ chat = Absent
    /\ tool = Absent
    /\ library = <<>>
    /\ context = [documents |-> <<>>, cache |-> <<>>]
    /\ answer = Absent

PushToken(t) ==
    /\ Len(window.pushed) < MaxPushed
    /\ LET w == Pushed(window, t)
       IN  window' = IF w.count = w.max THEN Slid(w) ELSE w
    /\ UNCHANGED <<flowVars, chatVars, recordVars>>

Slide ==
    /\ Len(window.captures) < MaxPushed
    /\ window' = Slid(window)
    /\ UNCHANGED <<flowVars, chatVars, recordVars>>

OpenWindow(n) ==
    /\ window' = NewWindow(n)
    /\ UNCHANGED <<flowVars, chatVars, recordVars>>

(* Nothing asks whether the state is one of the store. *)
PushStep(s) ==
    /\ Len(workflow.steps) < MaxSteps
    /\ workflow' = [workflow EXCEPT !.steps = Append(@, s)]
    /\ UNCHANGED <<window, checkpoints, chatVars, recordVars>>

Checkpoint ==
    /\ Cardinality(checkpoints) < MaxSteps \/ workflow \in checkpoints
    /\ checkpoints' = checkpoints \cup {workflow}
    /\ UNCHANGED <<window, workflow, chatVars, recordVars>>

(* Any workflow may resume from any checkpoint. *)
Resume(c) ==
    /\ workflow' = [id |-> c.id, steps |-> c.steps]
    /\ UNCHANGED <<window, checkpoints, chatVars, recordVars>>

CommitOrCollect(s) ==
    /\ present' = IF s \in present THEN present \ {s} ELSE present \cup {s}
    /\ UNCHANGED <<window, flowVars, chat, recordVars>>

(* Also capture_snapshot of the bridge.  An empty conversation id is an    *)
(* error.                                                                  *)
CaptureChat ==
    /\ chat' = [states |-> present, forks |-> 0]
    /\ UNCHANGED <<window, flowVars, present, recordVars>>

(* record_fork counts; it forks nothing. *)
RecordFork ==
    /\ chat # Absent
    /\ chat.forks < MaxSteps
    /\ chat' = [chat EXCEPT !.forks = @ + 1]
    /\ UNCHANGED <<window, flowVars, present, recordVars>>

(* The strings of a session may be empty: Absent. *)
StartTool(s) ==
    /\ tool' = [state |-> s, before |-> s, after |-> Absent]
    /\ UNCHANGED <<window, flowVars, chatVars, library, context, answer>>

RecordAfter(s) ==
    /\ tool # Absent
    /\ tool' = [tool EXCEPT !.after = s]
    /\ UNCHANGED <<window, flowVars, chatVars, library, context, answer>>

CaptureDocument(d) ==
    /\ Len(library) < MaxSteps
    /\ library' = Append(library, d)
    /\ UNCHANGED <<window, flowVars, chatVars, tool, context, answer>>

(* graft *)
Compose ==
    /\ context' = [documents |-> library, cache |-> Graft(library)]
    /\ UNCHANGED <<window, flowVars, chatVars, tool, library, answer>>

Ask ==
    /\ \/ tool # Absent /\ answer' = Verified(tool)
       \/ \E d \in Document : answer' = FindDocument(context.documents, d.document)
       \/ \E m, n \in Memory, t \in Tolerance : answer' = Reusable(m, n, t[1], t[2])
    /\ UNCHANGED <<window, flowVars, chatVars, tool, library, context>>

WindowNext == \/ Slide
              \/ \E t \in Words : PushToken(t)
              \/ \E n \in WindowSizes : OpenWindow(n)

FlowNext == \/ \E s \in States : PushStep(s)
            \/ Checkpoint
            \/ \E c \in checkpoints : Resume(c)

ChatNext == \/ \E s \in States : CommitOrCollect(s)
            \/ CaptureChat
            \/ RecordFork

RecordNext == \/ \E s \in States \cup {Absent} : StartTool(s)
              \/ \E s \in States : RecordAfter(s)
              \/ \E d \in Document : CaptureDocument(d)
              \/ Compose
              \/ Ask

AppNext == WindowNext \/ FlowNext \/ ChatNext \/ RecordNext

AppSpec == AppInit /\ [][AppNext]_appVars

-----------------------------------------------------------------------------
(* Properties.                                                             *)

(* However pushes and explicit slides follow one another, the captures and *)
(* the active window together hold every token pushed, in order and once;  *)
(* no capture holds more than max_tokens, each counts its own tokens, and  *)
(* they are numbered without a gap.                                        *)
WindowsHoldEveryToken ==
    LET c == window.captures IN
    /\ FlattenSeq([i \in DOMAIN c |-> c[i].state]) \o window.active = window.pushed
    /\ Len(window.active) < window.max
    /\ \A i \in DOMAIN c : /\ c[i].index = i - 1
                           /\ c[i].count = Len(c[i].state)
                           /\ c[i].count =< window.max
=============================================================================
