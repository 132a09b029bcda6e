------------------------------ MODULE Recording ------------------------------
(***************************************************************************)
(* Recording a session, replaying it for comparison, and showing it again  *)
(* (src/io_interface/spy_interface.cpp, compare_interface.cpp and          *)
(* replay_interface.cpp).                                                  *)
(*                                                                         *)
(* The spy sits between the console and the window: it logs the buttons    *)
(* and the resets the console is given, run-length encoded, and every      *)
(* pixel the console draws.  Later, the compare interface gives a fresh    *)
(* console the logged buttons and resets, one per step, and compares every *)
(* pixel with the log.  The replay interface lets the player play on and   *)
(* shows, for every pixel the console draws, the next one of the log.      *)
(*                                                                         *)
(* The console is deterministic: given the same inputs from the start, it  *)
(* draws the same pixels at each step.  Beyond the recorded steps, or once *)
(* an input differs, it draws anything.                                    *)
(***************************************************************************)
EXTENDS ScreenStream

CONSTANTS
    PALETTES,         \* colours the console draws
    BUTTONS,          \* sets of buttons the player holds down
    GARBAGE,          \* whether an uninitialised byte may have its low bit set
    UNDRAWN_SESSIONS, \* whether a session may be closed before its first pixel
    MAX_STEPS,        \* bound: steps of a recorded session
    MAX_PIXELS        \* bound: pixels drawn in a recorded session

ASSUME RecordingAssumption ==
    /\ PALETTES \subseteq 0..(MAX - 1)
    /\ {} \in BUTTONS
    /\ GARBAGE \subseteq BOOLEAN
    /\ UNDRAWN_SESSIONS \in BOOLEAN
    /\ MAX_STEPS \in Nat
    /\ MAX_PIXELS \in Nat

VARIABLES
    phase,        \* which program runs, and how it ended
    tape,         \* history: the inputs of each recorded step, and the
                  \* number of pixels drawn up to its end
    pixels,       \* history: the pixels drawn in the recorded session
    screenOut,    \* the spy's ScreenStream
    btnFile,      \* the entries of the button log
    spyButtons,   \* currentButtons and identicalCount
    spyReset,     \* currentReset and identicalRstCount
    reader,       \* the interface that reads the logs
    screenIn,     \* its ScreenStream
    nextButtons, nextResets,   \* the queues of the compare interface
    cmpButtons,   \* its currentButtons and remainingCount
    cmpReset,     \* its currentReset and remainingRstCount
    isDone,       \* isDone or isClose: the end of the pixel log was read
    step,         \* steps replayed, up to one more than recorded
    drawn,        \* pixels the replaying console drew while on track
    onTrack,      \* history: no replayed input differed yet
    compared      \* history: pixels compared, or shown

spyVars == <<tape, pixels, screenOut, btnFile, spyButtons, spyReset>>

cmpVars == <<reader, screenIn, nextButtons, nextResets, cmpButtons, cmpReset,
             isDone, step, drawn, onTrack, compared>>

vars == <<phase, spyVars, cmpVars>>

Init ==
    /\ phase = "recording"
    /\ tape = <<>>
    /\ pixels = <<>>
    /\ screenOut = NewWriter
    /\ btnFile = <<>>
    /\ spyButtons = [value |-> {}, count |-> 0]
    /\ spyReset = [value |-> FALSE, count |-> 0]
    /\ reader = "none"
    /\ screenIn = NewReader(<<>>)
    /\ nextButtons = <<>>
    /\ nextResets = <<>>
    /\ cmpButtons = [value |-> {}, count |-> 0]
    /\ cmpReset = [value |-> FALSE, count |-> 0]
    /\ isDone = FALSE
    /\ step = 0
    /\ drawn = 0
    /\ onTrack = TRUE
    /\ compared = 0

-----------------------------------------------------------------------------
(* SpyInterface                                                            *)

(* marshal shifts the eight buttons, A first, into a byte it has not       *)
(* initialised: the byte's low bit ends up where A is.                     *)
marshal(buttons, low) == IF low THEN buttons \cup {"A"} ELSE buttons

ButtonsEntry(low) ==
    <<[kind |-> "BTN", run |-> [spyButtons EXCEPT !.value = marshal(@, low)]]>>

ResetEntry == <<[kind |-> "RST", run |-> spyReset]>>

(* A run of equal inputs: one more, or the first of another. *)
Extend_StartsAtZero(run, value) ==
    IF value = run.value THEN [run EXCEPT !.count = run.count + 1]
                         ELSE [value |-> value, count |-> 0]

Extend(run, value) ==
    IF value = run.value THEN [run EXCEPT !.count = run.count + 1]
                         ELSE [value |-> value, count |-> 1]

(* A step of the console begins with shouldReset and getButtons; the       *)
(* pixels it draws follow.                                                 *)
RecordStep(reset, buttons, low) ==
    /\ phase = "recording"
    /\ Len(tape) < MAX_STEPS
    /\ spyReset' = Extend(spyReset, reset)
    /\ spyButtons' = Extend(spyButtons, buttons)
    /\ btnFile' = btnFile
           \o (IF reset = spyReset.value THEN <<>> ELSE ResetEntry)
           \o (IF buttons = spyButtons.value THEN <<>> ELSE ButtonsEntry(low))
    /\ tape' = Append(tape, [reset |-> reset, buttons |-> buttons,
                             drawn |-> Len(pixels)])
    /\ UNCHANGED <<phase, pixels, screenOut, cmpVars>>

(* SpyInterface::colorPixel *)
RecordPixel(palette) ==
    /\ phase = "recording"
    /\ tape # <<>> /\ Len(pixels) < MAX_PIXELS
    /\ screenOut' = write(screenOut, palette)
    /\ pixels' = Append(pixels, palette)
    /\ tape' = [tape EXCEPT ![Len(tape)].drawn = @ + 1]
    /\ UNCHANGED <<phase, btnFile, spyButtons, spyReset, cmpVars>>

(* SpyInterface::shouldClose, when the window is closed.  The window is    *)
(* shown from the first frame on, the first pixel is drawn when the        *)
(* program shows the background or sprites.                                *)
Close(low) ==
    /\ phase = "recording"
    /\ tape # <<>>
    /\ pixels # <<>> \/ UNDRAWN_SESSIONS
    /\ phase' = "closed"
    /\ btnFile' = btnFile \o ButtonsEntry(low) \o ResetEntry
    /\ screenOut' = [screenOut EXCEPT !.file = Closed(screenOut)]
    /\ UNCHANGED <<tape, pixels, spyButtons, spyReset, cmpVars>>

-----------------------------------------------------------------------------
(* CompareInterface                                                        *)

(* readAll pushes the entries of the file, one after the other, to the     *)
(* queues of their kinds.                                                  *)
Push(queues, entry) ==
    [queues EXCEPT ![entry.kind] = Append(@, entry.run)]

readAll(file) ==
    LET queues[k \in 0..Len(file)] ==
            IF k = 0 THEN [kind \in {"BTN", "RST"} |-> <<>>]
                     ELSE Push(queues[k - 1], file[k])
    IN  queues[Len(file)]

(* loadNextButtons and loadNextReset: an empty queue changes nothing.      *)
Load(run, queue) ==
    IF queue = <<>> THEN run ELSE Head(queue)

(* shouldReset and getButtons: load when nothing remains, then use one.    *)
(* What remains of the last entry goes below zero and stays there; -1      *)
(* stands for all of that.                                                 *)
Remaining(run, queue) == IF run.count = 0 THEN Load(run, queue) ELSE run

UseOne(run) == [run EXCEPT !.count = IF run.count < 0 THEN -1 ELSE run.count - 1]

Rest(run, queue) == IF run.count = 0 /\ queue # <<>> THEN Tail(queue) ELSE queue

(* The constructor reads the whole button log and loads one of each. *)
StartCompare ==
    /\ phase = "closed"
    /\ phase' = "replaying"
    /\ reader' = "compare"
    /\ LET queues == readAll(btnFile)
       IN  /\ cmpButtons' = Load(cmpButtons, queues["BTN"])
           /\ cmpReset' = Load(cmpReset, queues["RST"])
           /\ nextButtons' = Tail(queues["BTN"])
           /\ nextResets' = Tail(queues["RST"])
    /\ screenIn' = NewReader(screenOut.file)
    /\ UNCHANGED <<spyVars, isDone, step, drawn, onTrack, compared>>

(* The ReplayInterface takes buttons from the player, resets from nobody.  *)
StartShow ==
    /\ phase = "closed"
    /\ phase' = "replaying"
    /\ reader' = "replay"
    /\ screenIn' = NewReader(screenOut.file)
    /\ UNCHANGED <<spyVars, nextButtons, nextResets, cmpButtons, cmpReset,
                   isDone, step, drawn, onTrack, compared>>

StartReplay == StartCompare \/ StartShow

(* The inputs of the next step, where one was recorded, are as recorded.   *)
InputsAsRecorded(reset, buttons) ==
    step < Len(tape) =>
        /\ reset = tape[step + 1].reset
        /\ buttons = tape[step + 1].buttons

(* The console draws what it drew when the step was recorded.              *)
DrawsAsRecorded == reader = "compare" /\ onTrack /\ step \in DOMAIN tape

Undrawn == DrawsAsRecorded /\ drawn < tape[step].drawn

(* shouldClose, shouldReset and getButtons, in main's loop. *)
ReplayStep ==
    LET reset == Remaining(cmpReset, nextResets)
        buttons == Remaining(cmpButtons, nextButtons)
    IN  /\ phase = "replaying" /\ reader = "compare"
        /\ ~isDone
        /\ ~Undrawn
        /\ onTrack' = (onTrack /\ InputsAsRecorded(reset.value, buttons.value))
        /\ step' = IF step > Len(tape) THEN step ELSE step + 1
        /\ cmpReset' = UseOne(reset)
        /\ cmpButtons' = UseOne(buttons)
        /\ nextResets' = Rest(cmpReset, nextResets)
        /\ nextButtons' = Rest(cmpButtons, nextButtons)
        /\ UNCHANGED <<phase, reader, spyVars, screenIn, isDone, drawn, compared>>

(* colorPixel: a pixel that differs from the log makes the compare         *)
(* interface throw, the replay interface shows the one of the log.         *)
Accepts(palette, logged) == logged \in {END, palette} \/ reader = "replay"

Compare_NeverDone(palette) ==
    /\ screenIn' = read(screenIn)
    /\ compared' = IF screenIn'.value = END THEN compared ELSE compared + 1
    /\ phase' = IF Accepts(palette, screenIn'.value) THEN phase ELSE "error"
    /\ UNCHANGED isDone

Compare(palette) ==
    /\ screenIn' = read(screenIn)
    /\ isDone' = (screenIn'.value = END)
    /\ compared' = IF isDone' THEN compared ELSE compared + 1
    /\ phase' = IF Accepts(palette, screenIn'.value) THEN phase ELSE "error"

(* The pixels drawn after the end of the log was read are ignored.         *)
colorPixel(palette) ==
    \/ /\ ~isDone
       /\ Compare(palette)
    \/ /\ isDone
       /\ UNCHANGED <<screenIn, isDone, compared, phase>>

ReplayPixel(palette) ==
    /\ phase = "replaying"
    /\ step > 0 \/ reader = "replay"
    /\ DrawsAsRecorded => Undrawn /\ palette = pixels[drawn + 1]
    /\ drawn' = IF DrawsAsRecorded THEN drawn + 1 ELSE drawn
    /\ colorPixel(palette)
    /\ UNCHANGED <<reader, spyVars, step, onTrack,
                   cmpButtons, cmpReset, nextButtons, nextResets>>

(* main leaves its loop. *)
Finish ==
    /\ phase = "replaying"
    /\ isDone
    /\ phase' = "finished"
    /\ UNCHANGED <<spyVars, cmpVars>>

Next ==
    \/ \E reset \in BOOLEAN, buttons \in BUTTONS, low \in GARBAGE :
           RecordStep(reset, buttons, low)
    \/ \E palette \in PALETTES : RecordPixel(palette)
    \/ \E low \in GARBAGE : Close(low)
    \/ StartReplay
    \/ ReplayStep
    \/ \E palette \in PALETTES : ReplayPixel(palette)
    \/ Finish

(***************************************************************************)
(* The replaying program runs, and its console draws a pixel again and     *)
(* again: PPU::step draws while a program shows the background or sprites. *)
(***************************************************************************)
Spec ==
    /\ Init /\ [][Next]_vars
    /\ WF_vars(StartReplay)
    /\ WF_vars(ReplayStep)
    /\ WF_vars(\E palette \in PALETTES : ReplayPixel(palette))
    /\ WF_vars(Finish)

-----------------------------------------------------------------------------
(* Properties.                                                             *)

(* The console is given at each step of the replay exactly the buttons and *)
(* the reset it was given when the session was recorded, although the two  *)
(* logs count their runs independently and share one file.                 *)
SameInputs == onTrack

(* The nth pixel read back is the nth pixel written, for whichever         *)
(* interface reads: so comparing a session with its own recording never    *)
(* fails, and a replay shows it, whatever the runs of equal pixels are.    *)
ReadsBackPixels ==
    [][compared' > compared =>
           /\ compared' \in DOMAIN pixels
           /\ screenIn'.value = pixels[compared']
           /\ phase' # "error"]_vars

(* The end of the log is found right after the last pixel, not before and  *)
(* not later.  (With UNDRAWN_SESSIONS it is not: where no pixel was        *)
(* written, a run of none is, which reads back as 65536 pixels.)           *)
StopsAfterLastPixel ==
    /\ compared <= Len(pixels)
    /\ isDone => compared = Len(pixels)

(* A replay comes to its end, with either interface.                       *)
ReplayEnds == phase = "replaying" ~> phase \in {"finished", "error"}
=============================================================================
