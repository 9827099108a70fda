---------------------------- MODULE MCAssembler ------------------------------
(***************************************************************************)
(* Sessions of three kinds: one that shows an instruction and types it     *)
(* again, one that types a rotation, and one that writes a program with    *)
(* labels.                                                                 *)
(***************************************************************************)
EXTENDS Assembler

MCAddresses == {0, 4, 8, 12}
MCMapped == {0, 4, 8}
\* The labels top and out, and top with its @ typed in front.
top == 3
out == 4
MCTexts == {top, out, 5}
\* Back over the end of the addresses, out of the reach of BD, and no word.
MCAnswers == {SPACE - 4, 40000, 6}
MCJunk == {0, 9}
MCNamedSPRs == {1, 287, 1008}

\* A word that is read as it is meant, with the number n in it.
Spelt(as, n) ==
  CASE as = "register"          -> Word("reg", n)
    [] as \in DOMAIN Offset     -> Word("crf", n % 8)
    [] as = "spr"               -> Word("spr", <<8, 287, 1008, 77, 272>>[1 + (n % 5)])
    [] as \in {"sprg", "ibatu"} -> Word("hex", n % 4)
    [] OTHER                    -> Word("hex", n)

Vectors == {<<1, 2, 3, 4, 5>>, <<31, 30, 29, 28, 27>>, <<7, 7, 7, 7, 7>>,
            <<4, 5, 5, 2, 29>>, <<0, 0, 0, 0, 0>>, <<5, 6, 40000, 8, 31>>, <<9, 12, 0, 8, 23>>}

Spell(op, v) ==
  [w \in 1 .. WordsRead(op) |->
     Spelt((CHOOSE r \in {Rows[op][k] : k \in DOMAIN Rows[op]} : r.word = w).as, v[w])]

\* The bits of CR and the conditions that one of the rows stands for.
Shown(i) ==
  /\ i.op \in {"bc", "bca", "bclr"} => i.f["S"] \in {12, 16, 20}
  /\ i.op \in {"bc", "bca", "bclr"} /\ i.f["S"] # 12 => i.f["A"] = 0
  /\ i.op \in {"bca", "bclr"} /\ i.f["S"] = 12 => i.f["A"] % 4 = 2
  /\ i.op \in {"bc", "bca"} => i.f["S"] # 20
  /\ i.op = "bca" => i.f["S"] = 12
  /\ i.op = "tw"  => i.f["S"] \in {0, 4, 7, 9, 31}
  /\ i.op = "twi" => i.f["S"] \in {0, 7, 8, 9, 31}

Images == {i \in {assemble_a_mnemonic(op, Spell(op, v), v[3] - 4 * v[2], [w \in {} |-> 0]) :
                    op \in DOMAIN Rows, v \in Vectors} : Shown(i)}

Holding(i) == [a \in MCMapped |-> IF a = 0 THEN i ELSE data]

Shifted ==
  {Entry(op, <<Word("reg", 3), Word("reg", 4), Word("hex", n)>>) :
     op \in OneAmount, n \in 0 .. 31} \cup
  {Entry(op, <<Word("reg", 3), Word("reg", 4), Word("hex", n), Word("hex", b)>>) :
     op \in TwoAmounts, n \in 0 .. 32, b \in 0 .. 31}

WithLabels ==
  {Entry("b", <<Word("label", top)>>), Entry("ba", <<Word("label", top)>>),
   Entry("beq", <<Word("crf", 1), Word("label", out)>>), Entry("b", <<Word("hex", 8)>>),
   Entry("beqa", <<Word("crf", 2), Word("label", out)>>)}

Typed(lines) == {[op |-> l.op, words |-> l.f] : l \in lines}

MCSessions ==
  {[memory |-> Holding(i), lines |-> {}, number |-> 1] : i \in Images} \cup
  {[memory |-> Holding(data), lines |-> {l}, number |-> 1] : l \in Typed(Shifted)} \cup
  {[memory |-> Holding(data), lines |-> Typed(WithLabels), number |-> 4]}
==============================================================================
