--------------------------- MODULE MCChaosEngine ----------------------------
(* An instance of ChaosEngine for TLC: two screens, one with an input field *)
(* of two characters; texts of one and two characters, one of which ends in *)
(* a blank, and the empty text; three keys.                                 *)
EXTENDS ChaosEngine, TLC

CONSTANTS h1, h2, short, padded, other, empty

Texts == {short, padded, other, empty}
Sizes == short :> 1 @@ padded :> 2 @@ other :> 2 @@ empty :> 0
Trims == short :> short @@ padded :> short @@ other :> other @@ empty :> empty
InputFields == h1 :> <<[at |-> <<5, 7>>, len |-> 2]>> @@ h2 :> << >>

PF3 == Key("PF", 3)
Reset == Plain("Reset")

(* Reset is exported as an Enter; PF3 has no weight and is pressed only if  *)
(* a recording has it.  The first configuration gives Reset a negative      *)
(* weight; the second hides attempts that led nowhere.                      *)
RunConfigs ==
    {[weights |-> Enter :> 2 @@ Reset :> -1, limit |-> 2, exclude |-> FALSE],
     [weights |-> Reset :> 1 @@ PF3 :> 0, limit |-> 2, exclude |-> TRUE]}

(* A recording of four fills: a blank one, one as the record handlers write *)
(* it, one that names the length of its field and one without coordinates.  *)
Recorded ==
    {<<Press(Plain("Connect")), Fill(<<1, 9>>, empty), Fill(<<5, 7>>, short),
       Press(Plain("PressEnter")), [Fill(<<5, 7>>, short) EXCEPT !.len = 2],
       Fill(NoPlace, padded), Press(Key("PressPF", 3)), Press(Plain("Disconnect"))>>}

SortedKeys == <<Enter, PF3, Reset>>
PressedKeys == ToSet(SortedKeys)

(* What can still matter: of the exported steps, their keys and whether    *)
(* the file holds or will hold them all; of the transitions, where they    *)
(* led and the fields they filled; of the file, nothing once two runs had  *)
(* it to write; of a stop, nothing after the run.                          *)
View ==
    <<active, active /\ stop, IF runs = 0 THEN << >> ELSE cfg,
      stepsRun, keyCounts, hashes, inputs, attempts, failed, mind, pc, stepVars, runs, failures,
      seeded, IF active THEN afterStop ELSE 0, disturbed,
      [i \in DOMAIN transitions |-> <<transitions[i].from, transitions[i].to>>],
      UNION {{<<t.from, s>> : s \in {x \in ToSet(t.steps) : IsFill(x)}} : t \in ToSet(transitions)},
      {<<k, Quantify(DOMAIN OwnSteps, LAMBDA i : OwnSteps[i] = Press(ExportedStep(k)))>> : k \in Keys},
      disturbed \/ output = steps, IF disturbed THEN {} ELSE {w = steps : w \in unwritten}>>
=============================================================================
