---------------------------- MODULE ModRegistry ----------------------------
(***************************************************************************)
(* The registry the mods and the loader share (EFModAPI): mods register    *)
(* what they want looked up and the functions they want called after a     *)
(* method of the game; the loader looks up, hooks, and stores what mods    *)
(* then fetch.  A vector without duplicates is a set, one with an entry    *)
(* for each ID a function; an ID is the class, name and kind of a member.  *)
(***************************************************************************)
EXTENDS Integers, SequencesExt

VARIABLES
  ApiDescriptor,    \* IDs to look up
  FuncDescriptor,   \* for each method, whose template hooks it, and the functions
  API               \* IDs that were looked up

registry == <<ApiDescriptor, FuncDescriptor, API>>

OldFun(method) == <<method[1], method[2], "old_fun">>

\* Mutant: of two mods that hook a method the first is kept.
Merged_First(d, m) == d

\* Mutant: new functions are inserted at the beginning.
Merged_Front(d, m) == [d EXCEPT !.functions = <<m>> \o @]

(* A function for a method that has a descriptor is added to that one; the *)
(* template that came with it is dropped.                                  *)
Merged(d, m) == [d EXCEPT !.functions = Append(@, m)]

(* Mod m registers ids, and a function of its own for each of the methods. *)
Register(ids, methods, m) ==
  /\ ApiDescriptor' = ApiDescriptor \union ids
  /\ FuncDescriptor' = [x \in DOMAIN FuncDescriptor \union methods |->
                          IF x \notin methods THEN FuncDescriptor[x]
                          ELSE IF x \in DOMAIN FuncDescriptor THEN Merged(FuncDescriptor[x], m)
                          ELSE [template |-> m, functions |-> <<m>>]]
  /\ UNCHANGED API

(* getAPI returns nullptr for an ID that is not there.                     *)
getAPI(ids) == ids \intersect API

(* The loader looks up everything that is registered and hooks.            *)
LookUp ==
  /\ API' = API \union ApiDescriptor \union {OldFun(method) : method \in DOMAIN FuncDescriptor}
  /\ UNCHANGED <<ApiDescriptor, FuncDescriptor>>

Empty == ApiDescriptor = {} /\ FuncDescriptor = <<>> /\ API = {}
=============================================================================
