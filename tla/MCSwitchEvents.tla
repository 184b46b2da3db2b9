--------------------------- MODULE MCSwitchEvents ---------------------------
(* One button that is pressed with either of two origins and released, the *)
(* release that the input stream reports in the middle of a hold, and the  *)
(* hold of another button, for TLC.                                        *)
EXTENDS SwitchEvents

Button(phase, origin) ==
    [control |-> 1, phase |-> phase, origin |-> origin, streams |-> Streams]

InputOnly(control, phase, origin) ==
    [control |-> control, phase |-> phase, origin |-> origin, streams |-> {"input"}]

MCInputs ==
    {Button("PRESS", 0), Button("PRESS", 4), Button("RELEASE", 2),
     InputOnly(1, "RELEASE", 6), InputOnly(2, "HOLD", 8)}
=============================================================================
