------------------------------ MODULE MCCanvas ------------------------------
\* Model values and bounds for the TLC runs of Canvas and Notepad.
EXTENDS Canvas, TLC

CONSTANTS default, other, thePad, node, lacking, note, plan, odd, local, clone,
          bad, worse, piece1

TwoGraphs == {default, other}
Members == {thePad, node, lacking, bad, worse}
Earlier3 == {<<Holding({thePad, lacking}), Holding({thePad, bad})>>, <<Absent, Holding({worse})>>,
             <<Broken, Holding({thePad})>>}
EarlierDisks == {(default :> e[1]) @@ (other :> e[2]) : e \in Earlier3}
WithFrontends == {thePad, node, bad, worse}
ABadOne == {bad}
AWorseOne == {worse}
TwoCalls == 1..2
CallsOrTexts == {[calls |-> TwoCalls, pieces |-> {}], [calls |-> {}, pieces |-> Piece]}

\* "odd" is not a file name: it becomes "note".
Titles == {note, plan, odd}
Stems == [t \in Titles |-> IF t = odd THEN note ELSE t]
TwoFolders == {local, clone}
OnePiece == {piece1}

AllFaults == {"crash", "redis", "disk", "build"}
JustCrash == {"crash"}
=============================================================================
