---------------------------- MODULE MCEngineLoop ----------------------------
EXTENDS EngineLoop

\* "SHIP", "SHIP: b1", "b1 / REVISE", "REVISE: b1", "SHIP: b2 / REVISE", nothing.
MCMessages ==
    {<<Line("SHIP", "")>>,
     <<Line("SHIP", "b1")>>,
     <<Line("", "b1"), Line("REVISE", "")>>,
     <<Line("REVISE", "b1")>>,
     <<Line("SHIP", "b2"), Line("REVISE", "")>>,
     <<>>}

MCGates == {"pytest"}
=============================================================================
