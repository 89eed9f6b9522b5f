------------------------------ MODULE MC_Chat ------------------------------
(* Two sessions of a customer in two tabs; the cap is reached and expires.
   The model asks a valid query, one through a CTE, and one each that fails
   validate_query's checks in turn.                                        *)
EXTENDS Chat

Ask(statements, select, relations, functions) ==
    [statements |-> statements, select |-> select, relations |-> relations,
     ctes |-> {"mine"}, functions |-> functions]

MCQueries ==
    {Ask(1, TRUE, {"v_holdings"}, {"sum"}), Ask(1, TRUE, {"v_holdings", "mine"}, {}),
     Ask(0, TRUE, {}, {}), Ask(2, TRUE, {"v_holdings"}, {}), Ask(1, FALSE, {"v_holdings"}, {}),
     Ask(1, TRUE, {"customer"}, {}), Ask(1, TRUE, {"v_holdings"}, {"pg_sleep"})}
=============================================================================
