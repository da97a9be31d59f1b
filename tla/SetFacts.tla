------------------------------ MODULE SetFacts ------------------------------
(***************************************************************************)
(* The facts about finite sets, and about sets of naturals, that the       *)
(* proofs of the components rest on, each a definition of its own.         *)
(* The lemmas about a component take the ones they use as a hypothesis;    *)
(* the module that states the theorems of the component proves them from   *)
(* the library FiniteSetTheorems.                                          *)
(***************************************************************************)
EXTENDS Integers, FiniteSets

(* A nonempty set of naturals has a least element. *)
Least == \A S \in SUBSET Nat : S # {} => \E x \in S : \A y \in S : x <= y

(* The cardinality of a finite set is a natural, and 0 only of {}. *)
CountType ==
  /\ IsFiniteSet({}) /\ Cardinality({}) = 0
  /\ \A S : IsFiniteSet(S) =>
       Cardinality(S) \in Nat /\ (Cardinality(S) = 0 <=> S = {})

(* An interval, by its ends. *)
IntervalCount ==
  \A a, b \in Int :
    /\ IsFiniteSet(a .. b)
    /\ Cardinality(a .. b) = IF a > b THEN 0 ELSE b - a + 1

(* A subset is finite and not larger. *)
SubsetCount ==
  \A S, T : IsFiniteSet(S) /\ T \subseteq S =>
    IsFiniteSet(T) /\ Cardinality(T) <= Cardinality(S)

(* One element more, one element less. *)
AddCount ==
  \A S, x : IsFiniteSet(S) /\ x \notin S =>
    IsFiniteSet(S \cup {x}) /\ Cardinality(S \cup {x}) = Cardinality(S) + 1

RemoveCount ==
  \A S, x : IsFiniteSet(S) /\ x \in S =>
    IsFiniteSet(S \ {x}) /\ Cardinality(S \ {x}) = Cardinality(S) - 1

(* Union and difference. *)
UnionCount ==
  \A S, T : IsFiniteSet(S) /\ IsFiniteSet(T) =>
    /\ IsFiniteSet(S \cup T)
    /\ Cardinality(S \cup T)
         = Cardinality(S) + Cardinality(T) - Cardinality(S \cap T)

DifferenceCount ==
  \A S, T : IsFiniteSet(S) =>
    /\ IsFiniteSet(S \ T)
    /\ Cardinality(S \ T) = Cardinality(S) - Cardinality(S \cap T)

(* The subsets of a set. *)
PowerCount ==
  \A S : IsFiniteSet(S) =>
    IsFiniteSet(SUBSET S) /\ Cardinality(SUBSET S) = 2^Cardinality(S)

(* The image of a finite set under an injection. *)
ImageCount ==
  \A S, T, f :
    /\ IsFiniteSet(S) /\ f = [x \in S |-> f[x]] /\ T = {f[x] : x \in S}
    /\ \A x, y \in S : f[x] = f[y] => x = y
    => IsFiniteSet(T) /\ Cardinality(T) = Cardinality(S)
=============================================================================
