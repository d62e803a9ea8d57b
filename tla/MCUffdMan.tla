----------------------------- MODULE MCUffdMan -----------------------------
(***************************************************************************)
(* Values of the constants of UffdMan for TLC.                             *)
(***************************************************************************)
EXTENDS UffdMan, TLC

CONSTANT FirstPage \* a page the restricted workloads tell from the others

LoadsOf(addrs) == {a \in Access : a.op = "load" /\ a.val = Zero /\ a.addr \in addrs}
StoresOf(addrs) == {a \in Access : a.op = "store" /\ a.addr \in addrs}

\* Every load and every store.
AnyAccess == LoadsOf(Addr) \cup StoresOf(Addr)

\* One page is only stored to, the others are only loaded: no program of this
\* kind stores to a page that a load brought in.
StoreFirstLoadRest ==
    StoresOf({a \in Addr : a[2] = FirstPage}) \cup LoadsOf({a \in Addr : a[2] # FirstPage})

\* Every page is loaded, one is also stored to, always the same value.
LoadAllStoreFirst ==
    LoadsOf(Addr) \cup {a \in StoresOf(Addr) : a.addr[2] = FirstPage /\ a.val # Zero}

\* Every load, and stores of one value.
LoadAllStoreAll == LoadsOf(Addr) \cup {a \in StoresOf(Addr) : a.val # Zero}

\* Regions and threads are interchangeable in every workload.
RegionThreadSymmetry == Permutations(Regions) \cup Permutations(Threads)
=============================================================================
