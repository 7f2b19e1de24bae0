----------------------------- MODULE InputBoundary -----------------------------
(* One agent and one DCSS process over the WebTiles socket: ManagedGame's     *)
(* send_key sends one key, probes for a full state when nothing comes back,   *)
(* and receive_until_flush collects messages until the boundary the           *)
(* environment chose for the action is met.  A batch that ends while the game *)
(* is still running lets the agent act on a state nobody waited for.          *)
(* The game is external: what it may do is taken from how the transport, its  *)
(* tests and docs/architecture.md describe it.                                *)
EXTENDS Integers, Sequences, SequencesExt

CONSTANTS Prompt,     \* outside level generation the game answers, and takes
                      \* what it is sent, before a quiet period or timeout ends
          MaxKeys,    \* bound: keys sent after the one that starts the game
          MaxTurns,   \* bound: extra flushes of the game between two inputs
          MaxDepth    \* bound: nested user-interface layers

ASSUME BoundaryAssumption ==
  Prompt \in BOOLEAN /\ MaxKeys \in Nat /\ MaxTurns \in Nat /\ MaxDepth \in Nat \ {0}

NoMode == -1
Modes == {0, 1, 5, 6}              \* busy, command, more, one not recognised
_LEVEL_INPUT_MODES == {1, 2, 3, 4, 5, 7, 8}

VARIABLES client,     \* where send_key / receive_until_flush is
          boundary,   \* the FlushBoundary of the exchange
          evidence,   \* _LevelBoundaryEvidence of the exchange
          lastMode,   \* the latest input mode received
          menu,       \* the reducer holds a menu
          sent,       \* keys sent
          phase,      \* the game: waiting for input, running, generating, over
          mode,       \* the game's current input mode
          ui,         \* the game's UI stack: whether each layer blocks
          line,       \* the game has a text prompt open
          turns,      \* flushes since the game took its latest key
          taken,      \* keys the game has taken
          inbox,      \* what was sent and the game has not read
          channel     \* what the game sent and was not received

clientVars == <<client, boundary, evidence, lastMode, menu, sent>>
gameVars == <<phase, mode, ui, line, turns, taken>>
vars == <<clientVars, gameVars, inbox, channel>>

Exchanging == {"probing", "receiving", "settling"}
Guarded == {"level-transition", "ui-continuation"}
\* The boundary the environment asks for, for each kind of action.
Boundary == [stairs |-> "level-transition", ack |-> "ui-continuation",
             auto |-> "input-ready-or-quiescence", plain |-> "quiescence"]

\* of: the keys the game had taken when it said what the evidence rests on.
NoEvidence == [input_mode |-> NoMode, ui_stack |-> << >>, line_input |-> FALSE,
               saw_busy |-> FALSE, of |-> 0]

Mode(m) == [msg |-> "input_mode", mode |-> m]
Push(b) == [msg |-> "ui-push", blocking |-> b]
UiStack(s) == [msg |-> "ui-stack", items |-> s]
Plain(kind) == [msg |-> kind]

\* Before the first key the game shows its weapon choice.
Init ==
  /\ client = "receiving" /\ boundary = "quiescence"
  /\ evidence = NoEvidence /\ lastMode = NoMode /\ menu = FALSE /\ sent = 0
  /\ phase = "waiting" /\ mode = 0 /\ ui = <<TRUE>> /\ line = FALSE
  /\ turns = 0 /\ taken = 0
  /\ inbox = <<"plain">>
  /\ channel = <<[m |-> Push(TRUE), of |-> 0], [m |-> Plain("flush"), of |-> 0]>>
-------------------------------------------------------------------------------
(* The game (external).                                                       *)

Reads(kind) == inbox # << >> /\ Head(inbox) = kind /\ inbox' = Tail(inbox)
Emits(messages, k) ==
  channel' = channel \o [i \in DOMAIN messages |-> [m |-> messages[i], of |-> k]]

\* It announces mode changes only.
ModeChange(m) == IF m = mode THEN << >> ELSE <<Mode(m)>>
Flush == Plain("flush")

TakesKey ==
  /\ phase = "waiting"
  /\ \E kind \in DOMAIN Boundary : Reads(kind)
  /\ taken' = taken + 1
  /\ turns' = 0
  /\ \/ \* no visible effect, and no output
        UNCHANGED <<phase, mode, ui, line, channel>>
     \/ \* the key moves inside an open layer
        /\ ui # << >>
        /\ Emits(<<Plain("delta"), Flush>>, taken')
        /\ UNCHANGED <<phase, mode, ui, line>>
     \/ \* it closes the top layer, or every layer, and the game goes on
        /\ ui # << >>
        /\ phase' = "running" /\ mode' = 0 /\ UNCHANGED line
        /\ \/ ui' = Front(ui) /\ Emits(<<Plain("ui-pop")>> \o ModeChange(0) \o <<Flush>>, taken')
           \/ ui' = << >> /\ Emits(<<Plain("close_all_menus")>> \o ModeChange(0) \o <<Flush>>, taken')
     \/ \* leaving the reader of commands, prompts or text announces mode 0
        \* and flushes
        /\ ui = << >>
        /\ phase' = "running" /\ mode' = 0 /\ line' = FALSE
        /\ Emits((IF line THEN <<Plain("close_input")>> ELSE << >>)
                   \o ModeChange(0) \o <<Flush>>, taken')
        /\ UNCHANGED ui
  /\ UNCHANGED clientVars

\* A turn of an automatic command, an animation: rendered, not a boundary.
Renders ==
  /\ phase = "running" /\ turns < MaxTurns
  /\ turns' = turns + 1
  /\ Emits(<<Plain("delta"), Flush>>, taken)
  /\ UNCHANGED <<clientVars, phase, mode, ui, line, taken, inbox>>

\* Floor generation: potentially slow, possibly under a progress bar.
Generates ==
  /\ phase = "running" /\ turns < MaxTurns
  /\ phase' = "generating"
  /\ turns' = turns + 1
  /\ \/ UNCHANGED <<ui, channel>>
     \/ Len(ui) < MaxDepth /\ ui' = Append(ui, FALSE) /\ Emits(<<Push(FALSE), Flush>>, taken)
  /\ UNCHANGED <<clientVars, mode, line, taken, inbox>>

Generated ==
  /\ phase = "generating"
  /\ phase' = "running"
  /\ IF ui # << >> /\ ~Last(ui)
       THEN ui' = Front(ui) /\ Emits(<<Plain("ui-pop"), Flush>>, taken)
       ELSE UNCHANGED <<ui, channel>>
  /\ UNCHANGED <<clientVars, mode, line, turns, taken, inbox>>

\* The game waits for its next key in a mode, at a text prompt, in a new layer,
\* or in the layer that was open already.
Waits ==
  /\ phase = "running"
  /\ phase' = "waiting"
  /\ \/ \E m \in Modes \ {0} :
          /\ ui = << >>
          /\ mode' = m /\ Emits(ModeChange(m) \o <<Plain("delta"), Flush>>, taken)
          /\ UNCHANGED <<ui, line>>
     \/ /\ ui = << >>
        /\ line' = TRUE /\ Emits(<<Plain("init_input"), Flush>>, taken)
        /\ UNCHANGED <<mode, ui>>
     \/ /\ Len(ui) < MaxDepth
        /\ ui' = Append(ui, TRUE) /\ Emits(<<Push(TRUE), Flush>>, taken)
        /\ UNCHANGED <<mode, line>>
     \/ /\ ui # << >>
        /\ Emits(<<Plain("delta"), Flush>>, taken)
        /\ UNCHANGED <<mode, ui, line>>
  /\ UNCHANGED <<clientVars, turns, taken, inbox>>

Exits ==
  /\ phase = "running"
  /\ phase' = "over"
  /\ Emits(<<Plain("exit")>>, taken)
  /\ UNCHANGED <<clientVars, mode, ui, line, turns, taken, inbox>>

\* spectator_joined: answered when the game next reads input, which automatic
\* commands also do while they run.
AnswersProbe ==
  /\ phase \in {"waiting", "running"}
  /\ Reads("probe")
  /\ Emits(<<Plain("delta"), UiStack(ui), Mode(mode), Flush>>, taken)
  /\ UNCHANGED <<clientVars, gameVars>>

Game == TakesKey \/ Renders \/ Generates \/ Generated \/ Waits \/ Exits \/ AnswersProbe

\* The game has read everything and does nothing until it is sent a key.
GameWaits == phase = "over" \/ (phase = "waiting" /\ inbox = << >>)
-------------------------------------------------------------------------------
(* The environment, ManagedGame and WebtilesTransport.                        *)

\* Faulty variant: layers are counted open and never closed.
ApplyWithoutPop(e, p, k) ==
  CASE p.msg = "input_mode" ->
         [e EXCEPT !.input_mode = p.mode, !.saw_busy = @ \/ p.mode = 0, !.of = k]
    [] p.msg = "ui-push" -> [e EXCEPT !.ui_stack = Append(@, p.blocking), !.of = k]
    [] p.msg = "ui-stack" -> [e EXCEPT !.ui_stack = p.items, !.of = k]
    [] OTHER -> e

\* _LevelBoundaryEvidence.apply; items of a ui-stack are layers.
Apply(e, p, k) ==
  CASE p.msg = "input_mode" ->
         [e EXCEPT !.input_mode = p.mode, !.saw_busy = @ \/ p.mode = 0, !.of = k]
    [] p.msg = "ui-push" -> [e EXCEPT !.ui_stack = Append(@, p.blocking), !.of = k]
    [] p.msg = "ui-pop" -> [e EXCEPT !.ui_stack = IF @ = << >> THEN @ ELSE Front(@)]
    [] p.msg = "close_all_menus" -> [e EXCEPT !.ui_stack = << >>]
    [] p.msg = "ui-stack" -> [e EXCEPT !.ui_stack = p.items, !.of = k]
    [] p.msg = "init_input" -> [e EXCEPT !.line_input = TRUE, !.of = k]
    [] p.msg = "close_input" -> [e EXCEPT !.line_input = FALSE]
    [] OTHER -> e

ExplicitInput(e) == e.input_mode \in _LEVEL_INPUT_MODES
BlockingUi(e) == IF e.ui_stack # << >> THEN Last(e.ui_stack) ELSE e.line_input
\* The remembered _InputReadiness.
InputReady == lastMode = 1

\* ObservationReducer.apply keeps one menu, not a stack.
Menu(m, p) ==
  CASE p.msg = "ui-push" -> TRUE
    [] p.msg \in {"ui-pop", "close_all_menus"} -> FALSE
    [] OTHER -> m

\* Faulty variant: an unknown or busy mode is taken for command mode.
LegalInAnyMode(kind) ==
  CASE kind \in {"stairs", "auto"} -> ~menu /\ lastMode # 5
    [] kind = "ack" -> ~menu /\ lastMode = 5
    [] OTHER -> menu \/ lastMode # 5

\* legal_actions and step_typed: commands need command mode and no menu, a more
\* prompt without a menu is acknowledged or cancelled, and any other key (a menu
\* choice, a cancel) has the plain boundary.
Legal(kind) ==
  CASE kind \in {"stairs", "auto"} -> ~menu /\ lastMode = 1
    [] kind = "ack" -> ~menu /\ lastMode = 5
    [] OTHER -> menu \/ lastMode # 5

SendKey(kind) ==
  /\ client = "deciding" /\ sent < MaxKeys
  /\ Legal(kind)
  /\ sent' = sent + 1
  /\ inbox' = Append(inbox, kind)
  /\ boundary' = Boundary[kind]
  /\ evidence' = NoEvidence
  /\ client' = IF kind = "auto" THEN "receiving" ELSE "probing"
  /\ UNCHANGED <<lastMode, menu, gameVars, channel>>

\* select found nothing to read for the whole quiet period.
Quiet == channel = << >> /\ (Prompt => GameWaits \/ phase = "generating")

Answered ==
  /\ client = "probing"
  /\ channel # << >>
  /\ client' = "receiving"
  /\ UNCHANGED <<boundary, evidence, lastMode, menu, sent, gameVars, inbox, channel>>

\* Faulty variant: the probe is sent without waiting for silence.
RequestEagerly ==
  /\ client = "probing"
  /\ inbox' = Append(inbox, "probe")
  /\ client' = "receiving"
  /\ UNCHANGED <<boundary, evidence, lastMode, menu, sent, gameVars, channel>>

RequestFullState ==
  /\ client = "probing"
  /\ Quiet
  /\ inbox' = Append(inbox, "probe")
  /\ client' = "receiving"
  /\ UNCHANGED <<boundary, evidence, lastMode, menu, sent, gameVars, channel>>

\* Faulty variant: a more acknowledgement is complete when it is quiet.
StairsNeedEvidence(e) == boundary = "level-transition"

\* Where a flush leads, given the evidence and the modes read so far.
NeedsEvidence(e) ==
  boundary = "level-transition" \/ (boundary = "ui-continuation" /\ e.saw_busy)

AfterFlush(e) ==
  IF NeedsEvidence(e)
    THEN IF ExplicitInput(e) THEN "deciding"
         ELSE IF BlockingUi(e) THEN "settling" ELSE "receiving"
    ELSE IF boundary = "input-ready-or-quiescence" /\ InputReady
           THEN "deciding" ELSE "settling"

\* Only a guarded exchange returns at the game's exit.
Receive ==
  /\ client = "receiving"
  /\ channel # << >>
  /\ channel' = Tail(channel)
  /\ LET p == Head(channel).m
         k == Head(channel).of IN
       /\ lastMode' = IF p.msg = "input_mode" THEN p.mode ELSE lastMode
       /\ menu' = Menu(menu, p)
       /\ evidence' = IF boundary \in Guarded THEN Apply(evidence, p, k) ELSE evidence
       /\ client' = CASE p.msg = "flush" -> AfterFlush(evidence)
                      [] p.msg = "exit" /\ boundary \in Guarded -> "ended"
                      [] OTHER -> "receiving"
  /\ UNCHANGED <<boundary, sent, gameVars, inbox>>

Settle ==
  /\ client = "settling"
  /\ \/ channel # << >> /\ client' = "receiving"
     \/ Quiet /\ client' = "deciding"
  /\ UNCHANGED <<boundary, evidence, lastMode, menu, sent, gameVars, inbox, channel>>

\* Faulty variant: the socket has no timeout.
NeverTimesOut == FALSE

\* recv timed out: TimeoutError ends the episode.
TimesOut ==
  /\ client = "receiving"
  /\ channel = << >>
  /\ Prompt => GameWaits
  /\ client' = "failed"
  /\ UNCHANGED <<boundary, evidence, lastMode, menu, sent, gameVars, inbox, channel>>

Transport == Answered \/ RequestFullState \/ Receive \/ Settle \/ TimesOut

Next == Game \/ Transport \/ \E kind \in DOMAIN Boundary : SendKey(kind)

\* The game runs, and receiving never blocks beyond the socket's timeout.
Spec == Init /\ [][Next]_vars /\ WF_vars(Game) /\ WF_vars(Transport)
-------------------------------------------------------------------------------
(* Properties.                                                                *)

EvidenceRecords(depth) ==
  [input_mode : Modes \union {NoMode}, ui_stack : BoundedSeq(BOOLEAN, depth),
   line_input : BOOLEAN, saw_busy : BOOLEAN, of : 0..(MaxKeys + 1)]

\* A batch of a stairs action or a more acknowledgement ends only when the game
\* waits for input, with nothing of it left on the socket: mode 0 and silence,
\* a closed menu or a progress bar never certify the next key.  "Unknown input
\* modes fail closed": although the reducer keeps one menu for a stack of layers
\* and remembers the mode, stairs and automatic commands are legal only while the
\* game reads commands, with no layer and no text prompt.
DecidesOnlyAtInput ==
  client = "deciding" =>
    /\ boundary \in Guarded => GameWaits /\ channel = << >>
    /\ Legal("stairs") => mode = 1 /\ ui = << >> /\ ~line

\* "Current-exchange input evidence, not a remembered previous ready state": once
\* everything sent is read, the layers the exchange's evidence holds are the game's
\* own top layers, and what a level transition is certified by was said after its
\* own key was taken.
EvidenceIsItsOwn ==
  /\ boundary \in Guarded /\ channel = << >> => IsSuffix(evidence.ui_stack, ui)
  /\ client = "deciding" /\ boundary = "level-transition" => evidence.of = sent + 1

\* Every exchange ends, with a batch or by the timeout.
ExchangeEnds == client \in Exchanging ~> client \in {"deciding", "failed", "ended"}
===============================================================================
