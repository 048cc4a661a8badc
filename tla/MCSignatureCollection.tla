----------------------- MODULE MCSignatureCollection -----------------------
(***************************************************************************)
(* SignatureCollection with three organizations at two consoles.            *)
(* Every request but the first appends to the document the first creates.   *)
(***************************************************************************)
EXTENDS SignatureCollection, TLC

CONSTANTS c1, c2, o1, o2, o3, create, sign1, sign2, sign3, delete

\* An organization asked at ts, or that signed at ts.
Asks(ts) == [sig |-> Unsigned, ts |-> ts]
Signed(ts) == [sig |-> ts, ts |-> ts]

NoneAsked == [o \in Orgs |-> NotAsked]

Creates(orgs) == [method |-> "POST", orgs |-> orgs, status |-> "", distribute |-> "missing"]
Appends(orgs, status) ==
  [method |-> "PUT", orgs |-> orgs, status |-> status, distribute |-> "all"]
Deletes == [method |-> "DELETE", orgs |-> NoneAsked, status |-> "", distribute |-> "all"]

\* o1 asks itself and o2; both sign; o3, whom
\* nobody asked, signs too; o1 deletes.
MCBody ==
  create :> Creates(o1 :> Asks(1) @@ o2 :> Asks(1) @@ NoneAsked)
  @@ sign1 :> Appends(o1 :> Signed(2) @@ NoneAsked, "")
  @@ sign2 :> Appends(o2 :> Signed(2) @@ NoneAsked, "")
  @@ sign3 :> Appends(o3 :> Signed(2) @@ NoneAsked, "")
  @@ delete :> Deletes

MCAt == create :> c1 @@ sign1 :> c1 @@ sign2 :> c2
        @@ sign3 :> c2 @@ delete :> c1

MCUrl == o1 :> c1 @@ o2 :> c2 @@ o3 :> c2

\* Both consoles have all certificates, or
Everyone == c1 :> Orgs @@ c2 :> Orgs

\* c1 does not have the certificates of o3.
NotO3 == c1 :> {o1, o2} @@ c2 :> {o1, o2, o3}

AllAt == [r \in Requests |-> MCAt[r]]
AllBody == [r \in Requests |-> MCBody[r]]

=============================================================================
