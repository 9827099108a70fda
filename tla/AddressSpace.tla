---------------------------- MODULE AddressSpace ----------------------------
(***************************************************************************)
(* What a system map promises to a program and to the user.  Memory is a   *)
(* set of cells, in a row for each device; an address has a role, and if   *)
(* it is memory it names a cell, as other addresses may too.  Defining     *)
(* devices gives a role only to addresses that had none, so that no device *)
(* is ever hidden or moved by a later one, and leaves every cell alone.    *)
(* An access is answered by the device of its first address: it moves its  *)
(* bytes, high byte first, from or to the cell which that address names    *)
(* and those that follow in the same device.  What a load finds beyond the *)
(* last cell of a device is nobody's, and what a store puts there is lost: *)
(* an access that crosses the end of a device does not reach the next.     *)
(***************************************************************************)
EXTENDS Integers, Sequences

CONSTANTS Addr, Byte, Sizes

VARIABLES
  place,    \* the role of each address, and the cell it names
  bytes,    \* what each cell holds
  answer    \* what the last access was told

svars == <<place, bytes, answer>>

\* A cell is a device and an offset; an address that is not memory has none.
NoCell  == <<0, 0>>
Nothing == [role |-> "none", cell |-> NoCell]

IsMemory(a) == place[a].role = "memory"

\* The k-th of the cells of an access.
CellOf(a, k) == <<place[a].cell[1], place[a].cell[2] + k - 1>>

Zeros(n) == [i \in 1 .. n |-> 0]

\* What was done last, with the data of a load.
Did(what)    == [did |-> what, data |-> <<>>]
Loaded(data) == [did |-> "load", data |-> data]
Failed       == answer' = Did("error")

Init ==
  /\ place = [a \in Addr |-> Nothing]
  /\ bytes = [c \in {} |-> 0]
  /\ answer = Did("sys")

\* Addresses without a role are given one, and devices that are new come with
\* their memory.
Define ==
  /\ answer' = Did("sys")
  /\ \A a \in Addr : place[a] # Nothing => place'[a] = place[a]
  /\ \A c \in DOMAIN bytes : c \in DOMAIN bytes' /\ bytes'[c] = bytes[c]

\* The map is deleted, and perhaps another one made.
Redefine == answer' = Did("remap")

\* A file is copied into memory, from the cell of an address upwards.
Fill ==
  /\ answer' = Did("fl")
  /\ UNCHANGED place
  /\ DOMAIN bytes' = DOMAIN bytes
  /\ \E a \in Addr : \A c \in DOMAIN bytes : bytes'[c] # bytes[c] =>
       /\ IsMemory(a)
       /\ c[1] = place[a].cell[1] /\ c[2] >= place[a].cell[2]

Load(a, n) ==
  /\ UNCHANGED <<place, bytes>>
  /\ \/ /\ IsMemory(a)
        /\ \E data \in [1 .. n -> Byte] :
             /\ \A k \in 1 .. n :
                  CellOf(a, k) \in DOMAIN bytes => data[k] = bytes[CellOf(a, k)]
             /\ answer' = Loaded(data)
     \/ /\ place[a].role \in {"none", "ignored"}
        /\ answer' = Loaded(Zeros(n))
     \/ /\ place[a].role = "device"
        /\ Failed \/ \E data \in [1 .. n -> Byte] : answer' = Loaded(data)
     \/ place[a].role = "trap" /\ Failed

Store(a, n, data) ==
  /\ UNCHANGED place
  /\ \/ /\ IsMemory(a)
        /\ answer' = Did("store")
        /\ DOMAIN bytes' = DOMAIN bytes
        /\ \A c \in DOMAIN bytes :
             /\ \A k \in 1 .. n : c = CellOf(a, k) => bytes'[c] = data[k]
             /\ (\A k \in 1 .. n : c # CellOf(a, k)) => bytes'[c] = bytes[c]
     \/ /\ place[a].role \in {"none", "ignored"}
        /\ answer' = Did("store")
        /\ UNCHANGED bytes
     \/ /\ place[a].role = "device"
        /\ Failed \/ answer' = Did("store")
        /\ UNCHANGED bytes
     \/ /\ place[a].role = "trap"
        /\ Failed
        /\ UNCHANGED bytes

Access ==
  \E n \in Sizes : \E a \in Addr :
    Load(a, n) \/ \E data \in [1 .. n -> Byte] : Store(a, n, data)

Next == Define \/ Redefine \/ Fill \/ Access

Spec == Init /\ [][Next]_svars
=============================================================================
