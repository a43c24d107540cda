----------------------- MODULE MCAnalysisController -----------------------
(* Small instances of AnalysisController for TLC.                          *)
EXTENDS AnalysisController

CONSTANTS t1, n1, n2, m1, m2, A, B

NsSel(n) == [kind |-> "Namespace", name |-> n]
DepSel(m) == [kind |-> "Deployment", name |-> m]
SpecOf(type, sels, s) == [type |-> type, selectors |-> sels, strategy |-> s]

(* Every task lives in the first project.                                  *)
MCHome == [t \in Tasks |-> n1]

(* One project alone; both projects behind a selector of the wrong kind    *)
(* and before an empty name, which cuts the pass short.                    *)
NamespaceSpecs ==
    {SpecOf("Namespace", <<NsSel(n1)>>, A),
     SpecOf("Namespace", <<DepSel(m1), NsSel(n2), NsSel(n1), NsSel(Nil)>>, B)}

OtherSpecs ==
    {SpecOf("Deployment", <<NsSel(n1), DepSel(m1)>>, B)}

AllSpecs == NamespaceSpecs \cup OtherSpecs

(* One project and one strategy, for liveness.                             *)
OneProjectSpecs == {SpecOf("Namespace", <<NsSel(n1)>>, A)}
=============================================================================
