------------------------------- MODULE MCLcd --------------------------------
(***************************************************************************)
(* The LCD library, for TLC: a menu, an input screen, and the screens that *)
(* share the display.  The three have no step and no variable in common    *)
(* and each is explored by itself; which one is chosen at first.           *)
(*                                                                         *)
(* The input screen has two characters to choose from and presets of every *)
(* length up to a bound, so that the text can be shorter and longer than   *)
(* the display and can fill the buffer.  Of the two screens one is a frame *)
(* or a clock and the other a menu, an input or a yes-no screen; each can  *)
(* be shown, changed, deleted and made again while the other is on display.*)
(***************************************************************************)
EXTENDS MCLcdRing, LcdInput, LcdScreens, TLC

CONSTANTS MaxPreset,    \* bound: characters of a preset
          h1, h2        \* the addresses of the screens

MCChars == Special \cup {"a", "b"}
MCSelection == <<"a", "b">>
MCPresets == {[i \in 1 .. n |-> "a"] : n \in 0 .. MaxPreset}
MCKindsAt == h1 :> {"FRAME", "CLOCK"} @@ h2 :> {"MENU", "INPUT", "YESNO"}

VARIABLE part           \* of the library

menuvars == <<vars, lateAdds>>

LcdInit == /\ part \in {"menu", "input", "screens"}
           /\ MCInit /\ InputInit /\ ScreensInit
           /\ part # "input" => result = <<>>
           /\ part # "screens" => ~driverclock

Screens(step) == part = "screens" /\ step /\ UNCHANGED <<part, menuvars, inputvars>>

LcdNext ==
    \/ part = "menu" /\ MCNext /\ UNCHANGED <<part, inputvars, screenvars>>
    \/ part = "input" /\ InputNext /\ UNCHANGED <<part, menuvars, screenvars>>
    \/ part = "screens" /\ ScreensNext /\ UNCHANGED <<part, menuvars, inputvars>>

lcdvars == <<part, menuvars, inputvars, screenvars>>

\* The application's main loop keeps calling lcd_tick.
LcdSpec == /\ LcdInit /\ [][LcdNext]_lcdvars
           /\ WF_lcdvars(Screens(lcd_tick))
=============================================================================
