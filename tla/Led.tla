-------------------------------- MODULE Led --------------------------------
(***************************************************************************)
(* The LED dispatcher task (firmware/src/led.rs): a mailbox of commands    *)
(* that never blocks its senders, a background pattern that loops and that *)
(* any command preempts, and one-shot sequences that nothing preempts.     *)
(* A pattern is a sequence of steps, each on or off, one tick long.        *)
(***************************************************************************)
EXTENDS Integers, Sequences

CONSTANTS Backgrounds,    \* background patterns, <<>> among them: none
          Instants,       \* one-shot patterns given to play()
          Pulses,         \* records [on, off, count] given to pulse()
          Delays,         \* gaps given to set_switch_delay(); the first one is any of them
          LedDepth,       \* QUEUE_DEPTH
          MaxCommands     \* bound: commands sent

VARIABLES mailbox, background, switch_delay,
          playing,        \* [phase, steps, left]: the steps still to be shown
          lit, hist

ledVars == <<mailbox, background, switch_delay, playing, lit, hist>>

Nothing == [phase |-> "idle", steps |-> <<>>, left |-> 0]

\* The steps of Pulse { on_ms, off_ms, count }
Train(p) ==
    [i \in 1 .. (p.on + p.off) * p.count |-> ((i - 1) % (p.on + p.off)) < p.on]

IsInstant(c) == c.kind = "Play"
InstantsOf(cs) == SelectSeq(cs, IsInstant)
BackgroundsOf(cs) == SelectSeq(cs, LAMBDA c : c.kind = "Background")
LastBackground(cs) ==
    LET bs == BackgroundsOf(cs) IN IF bs = <<>> THEN <<>> ELSE bs[Len(bs)].steps

\* What the dispatcher goes to at the head of its loop: the background from its first step,
\* or dark until a command comes
Resume(bg) ==
    IF bg = <<>> THEN Nothing ELSE [phase |-> "background", steps |-> bg, left |-> 0]

\* The level the pin is driven to when `p` begins
Level(p) == p.phase # "gap" /\ p.steps # <<>> /\ p.steps[1]

-----------------------------------------------------------------------------
\* play, pulse, flash, set_background, set_switch_delay: try_send, dropped when it is full
Send(c) ==
    /\ hist.sent < MaxCommands
    /\ mailbox' = IF Len(mailbox) < LedDepth THEN Append(mailbox, c) ELSE mailbox
    /\ hist' = [hist EXCEPT !.sent = @ + 1,
                            !.taken = IF Len(mailbox) < LedDepth THEN Append(@, c) ELSE @]
    /\ UNCHANGED <<background, switch_delay, playing, lit>>

Ready == playing.phase \in {"idle", "background"} /\ mailbox # <<>>

\* A command preempts the background step it finds, or ends the dark wait
Dispatch ==
    /\ Ready
    /\ mailbox' = Tail(mailbox)
    /\ LET c == Head(mailbox) IN
         \/ /\ c.kind = "Background"
            /\ background' = c.steps
            /\ playing' = Resume(c.steps)
            /\ UNCHANGED switch_delay
         \/ /\ c.kind = "SwitchDelay"
            /\ switch_delay' = c.delay
            /\ playing' = Resume(background)
            /\ UNCHANGED background
         \/ /\ c.kind = "Play"
            /\ playing' = IF background # <<>> /\ switch_delay > 0
                          THEN [phase |-> "gap", steps |-> c.steps, left |-> switch_delay]
                          ELSE IF c.steps = <<>> THEN Resume(background)
                          ELSE [phase |-> "play", steps |-> c.steps, left |-> 0]
            /\ UNCHANGED <<background, switch_delay>>
    /\ lit' = Level(playing')
    /\ hist' = [hist EXCEPT !.shown =
          IF Head(mailbox).kind = "Play" /\ playing'.phase \notin {"gap", "play"}
          THEN @ + 1 ELSE @]

\* A step's timer runs out
StepEnds ==
    /\ playing.phase # "idle" /\ ~Ready
    /\ playing' =
         CASE playing.phase = "gap" /\ playing.left > 1 -> [playing EXCEPT !.left = @ - 1]
           [] playing.phase = "gap" /\ playing.left <= 1 ->
                IF playing.steps = <<>> THEN Resume(background)
                ELSE [playing EXCEPT !.phase = "play", !.left = 0]
           [] playing.phase = "play" ->
                IF Len(playing.steps) = 1 THEN Resume(background)
                ELSE [playing EXCEPT !.steps = Tail(@)]
           [] playing.phase = "background" ->
                IF Len(playing.steps) = 1 THEN Resume(background)
                ELSE [playing EXCEPT !.steps = Tail(@)]
    /\ lit' = Level(playing')
    /\ hist' = [hist EXCEPT !.shown =
          IF playing.phase \in {"gap", "play"} /\ playing'.phase \notin {"gap", "play"}
          THEN @ + 1 ELSE @]
    /\ UNCHANGED <<mailbox, background, switch_delay>>

-----------------------------------------------------------------------------
Commands ==
    {[kind |-> "Background", steps |-> b, delay |-> 0] : b \in Backgrounds}
    \cup {[kind |-> "Play", steps |-> s, delay |-> 0] : s \in Instants}
    \cup {[kind |-> "Play", steps |-> Train(p), delay |-> 0] : p \in Pulses}
    \cup {[kind |-> "SwitchDelay", steps |-> <<>>, delay |-> d] : d \in Delays}

LedInit ==
    /\ mailbox = <<>> /\ background = <<>> /\ playing = Nothing /\ lit = FALSE
    /\ switch_delay \in Delays
    /\ hist = [sent |-> 0, taken |-> <<>>, shown |-> 0]

LedNext == (\E c \in Commands : Send(c)) \/ Dispatch \/ StepEnds

LedSpec == LedInit /\ [][LedNext]_ledVars

-----------------------------------------------------------------------------
\* What the mailbox takes is carried out, once and in order, whatever it interrupts: the one-shot
\* sequences shown, the one being shown and the ones waiting are those that were taken; once the
\* mailbox is empty the background is the last one taken, it is what runs between sequences, and
\* without one the LED is dark.
LedSound ==
    /\ hist.shown + (IF playing.phase \in {"gap", "play"} THEN 1 ELSE 0)
         + Len(InstantsOf(mailbox)) = Len(InstantsOf(hist.taken))
    /\ mailbox = <<>> => background = LastBackground(hist.taken)
    /\ playing.phase = "idle" => ~lit /\ background = <<>>
    /\ playing.phase = "background" => background # <<>>
    /\ playing.phase = "gap" => ~lit
=============================================================================
