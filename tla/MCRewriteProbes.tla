--------------------------- MODULE MCRewriteProbes ---------------------------
(* Instances of RewriteProbes for TLC.                                     *)
EXTENDS RewriteProbes, TLC

\* The first reading of each band; the boundaries of the recovery band.
MCThreeBands == {480, 550, 580}
MCRecovery   == {550, 579, 580}

\* For each handler: a key of its own tables, keys of the tables its calls
\* share, a value another stage of the module produces, and one no table names.
MCInputs ==
  [h \in Handlers |->
    CASE h = "ichg"    -> {12945, 17600, 3880, 500, 14270}
      [] h = "cv"      -> {4530, 4510, 4500, 4080, 4000}
      [] h = "fast"    -> {18300, 12400, 1445, 4500, 18400, 16000}
      [] h = "thermal" -> {0, 13500, 15000, 500}
      [] h = "max"     -> {17500, 18400, 11000, 777}
      [] OTHER         -> {18400, 11000, 4500, 777}]

\* Fewer, for two handlers at a time: keys of each table and of the tables
\* its calls share.
MCFewInputs ==
  [h \in Handlers |->
    CASE h = "ichg"    -> {12945}
      [] h = "cv"      -> {4530}
      [] h = "fast"    -> {18300, 18400, 12400}
      [] h = "thermal" -> {0, 13500}
      [] h = "max"     -> {17500, 11000}
      [] OTHER         -> {18400, 4500}]

AllParams == [boost: BOOLEAN, pps: BOOLEAN, thermal: BOOLEAN]
\* The charging switches in every setting that rewrites.
MCSomeParams == {p \in AllParams : p.thermal /\ (p.boost \/ p.pps)}
\* profile.conf switches everything on.
ProfileParams == {[boost |-> TRUE, pps |-> TRUE, thermal |-> TRUE]}

CPUSymmetry == Permutations(CPUs)
=============================================================================
