----------------------------- MODULE SymbolTable -----------------------------
(***************************************************************************)
(* The symbols of symbols.c as a value, a sequence in the order of their   *)
(* definition, and the questions asked of it: the value of a name, the     *)
(* symbol an address belongs to, and the label it is listed with.          *)
(***************************************************************************)
EXTENDS Words, SequencesExt

CONSTANTS
  SymFiles,     \* name -> lines of a listing, each [kind, name, val]
  MAX_DELTA,    \* 0xFFFFFF: how far from a symbol an address still belongs to it
  LABEL_SPACE   \* sym_mask + 1, 0x100000: labels are looked up by what is below it

Kinds == {"header", "blank", "section", "text", "data", "bss", "abs", "other"}

ASSUME SymbolAssumption ==
  /\ MAX_DELTA \in Nat /\ LABEL_SPACE \in Nat \ {0}
  /\ \A f \in DOMAIN SymFiles :
       SymFiles[f] \in Seq([kind : Kinds, name : STRING, val : Word])

Symbol(name, val) == [name |-> name, val |-> val]

Names(t) == {t[i].name : i \in DOMAIN t}

\* symbol_get_byname: the first of them; there is one if the name is defined.
symbol_get_byname(t, name) == t[SelectInSeq(t, LAMBDA s : s.name = name)].val

\* A mutation: a second definition replaces the first.
symbol_add_replace(t, name, val) ==
  Append(SelectSeq(t, LAMBDA s : s.name # name), Symbol(name, val))

symbol_add(t, name, val) ==
  IF name \in Names(t) THEN t ELSE Append(t, Symbol(name, val))

\* Lines above the header are skipped, as are sections, and values that are
\* below the filter as signed numbers.
Loadable == {"text", "data", "bss", "abs"}

Taken(line, filter) == line.kind \in Loadable /\ Signed(line.val) >= filter

symbols_load_gccsym(t, file, filter) ==
  LET lines == SymFiles[file]
      h == SelectInSeq(lines, LAMBDA l : l.kind = "header")
      body == IF h = 0 THEN <<>> ELSE SubSeq(lines, h + 1, Len(lines))
  IN  FoldLeft(LAMBDA u, l : IF Taken(l, filter) THEN symbol_add(u, l.name, l.val) ELSE u,
               t, body)

Nowhere == "unknown location"

\* A mutation: the distance is not kept, and the last one wins.
Closer_last(best, s, addr) ==
  IF s.val < addr /\ Signed(addr - s.val) < MAX_DELTA
    THEN [best EXCEPT !.closest = s.name] ELSE best

\* The distance is an int: one beyond its range counts as negative.
Closer(best, s, addr) ==
  IF s.val < addr /\ Signed(addr - s.val) < best.delta
    THEN [closest |-> s.name, delta |-> Signed(addr - s.val)] ELSE best

\* A mutation: the last that agrees.
symbol_get_byaddr_last(t, addr) ==
  t[SelectLastInSeq(t, LAMBDA s : s.val % LABEL_SPACE = addr % LABEL_SPACE)].name

\* Labels are looked up by the low bits of the address: the first that agrees.
symbol_get_byaddr(t, addr) ==
  t[SelectInSeq(t, LAMBDA s : s.val % LABEL_SPACE = addr % LABEL_SPACE)].name

\* The name of the symbol found.
SYM_where(t, addr) ==
  FoldLeft(LAMBDA best, s : Closer(best, s, addr), [closest |-> Nowhere, delta |-> MAX_DELTA], t)
    .closest

\* The listing of the instruction at the symbol found begins with a label.
Listed(t, name) ==
  IF name = Nowhere THEN Nowhere ELSE symbol_get_byaddr(t, symbol_get_byname(t, name))
=============================================================================
