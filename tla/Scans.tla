------------------------------- MODULE Scans --------------------------------
(***************************************************************************)
(* What a loop over numbered things leaves in a list: that over the        *)
(* functions of the PCI bus, over the ports of the disks, and over the     *)
(* rows of the list of drives.                                             *)
(***************************************************************************)
EXTENDS Naturals, Sequences, FiniteSets

(* A set of numbers from its smallest to its largest.                      *)
Ascending(S) == [n \in 1..Cardinality(S) |->
                   CHOOSE i \in S: Cardinality({j \in S: j < i}) = n - 1]

(* The elements of s at the places K, in their order.                      *)
Subsequence(s, K) == [n \in 1..Cardinality(K) |-> s[Ascending(K)[n]]]
=============================================================================
