---------------------------- MODULE MCInputPort ----------------------------
(* Instances of InputPort for TLC: one text, one number and two macros.    *)
EXTENDS InputPort

MCTexts   == {"", "text"}
MCNumbers == {"1"}
MCMacroTokens == [m \in {"skip macro", "number macro"} |->
                    IF m = "skip macro" THEN <<Skip>> ELSE <<Skip, BlankToken, "1">>]

Typed(c) == [type |-> "Command", cmd |-> c]

\* the user types a text or a macro and interrupts it, presses a key, starts and
\* stops skipping
MCSafeEvents == {Typed("text"), Typed("number macro"), Ev("InterruptMacro"), Ev("RawInput"),
                 Ev("StartSkippingWait"), Ev("StopSkippingWait")}

\* the user types, or quits the game
MCQuitEvents == {Typed("text"), Ev("Quit")}

=============================================================================
