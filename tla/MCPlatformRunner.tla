-------------------------- MODULE MCPlatformRunner --------------------------
(* PlatformRunner on a part of the registry that has every kind of job:    *)
(* modules 1 core, 2 finance, 3 sales.                                     *)
EXTENDS PlatformRunner, TLC

CONSTANTS core_dims, finance, sales, compare, refresh_30m, full_all

McDeps == core_dims   :> <<>>
       @@ finance     :> <<core_dims>>
       @@ sales       :> <<core_dims>>
       @@ compare     :> <<>>
       @@ refresh_30m :> <<core_dims, finance>>
       @@ full_all    :> <<core_dims, finance, sales, compare>>
McOptional == [j \in Jobs |-> IF j = full_all THEN {finance, compare} ELSE {}]
McOwn == core_dims   :> {1}
      @@ finance     :> {2}
      @@ sales       :> {3}
      @@ compare     :> {3}
      @@ refresh_30m :> {}
      @@ full_all    :> {}
McBudget == [f \in Faults |-> 1]

Symmetry == Permutations(Runs)
=============================================================================
