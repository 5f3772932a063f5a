------------------------------- MODULE MCSeed -------------------------------
(* The two charts of seed.ts.                                               *)
EXTENDS DemoTenant, TLC

MCTenants == <<"tenant-a", "tenant-b">>

ChartA ==
  ("ceo-a" :> NoUser) @@ ("director-a" :> "ceo-a")
    @@ ("manager-a" :> "director-a") @@ ("manager-b" :> "director-a")
    @@ ("employee-a" :> "manager-a") @@ ("employee-b" :> "manager-b")
    @@ ("finance-admin-a" :> "ceo-a") @@ ("hr-admin-a" :> "ceo-a")

ChartB == ("ceo-b" :> NoUser) @@ ("employee-b1" :> "ceo-b")

MCUsers == DOMAIN ChartA \cup DOMAIN ChartB

Everyone(chart) ==
  [u \in MCUsers |-> IF u \in DOMAIN chart THEN chart[u] ELSE NoUser]

MCStaff   == ("tenant-a" :> DOMAIN ChartA) @@ ("tenant-b" :> DOMAIN ChartB)
MCManager == ("tenant-a" :> Everyone(ChartA)) @@ ("tenant-b" :> Everyone(ChartB))

MCWildcard(type) == IF type = "employee" THEN "employee.*"
                    ELSE IF type = "payroll" THEN "payroll.*" ELSE "expense.*"

Symmetry == Permutations(Containers)
=============================================================================
