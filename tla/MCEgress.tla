------------------------------ MODULE MCEgress ------------------------------
(* A grant of four rules, the URLs a guest or a redirect may name, and    *)
(* one address of every kind the operator's rules tell apart.              *)
EXTENDS Egress, TLC

CONSTANTS k1, k2, r1, api, sub, other, lit, meta, v1, corp,
          pub, priv, excepted, forbidden, mapped, zero

MCCalls == {k1, k2}
MCRunOf == k1 :> r1 @@ k2 :> r1

Url(s, h, p) == [scheme |-> s, host |-> h, path |-> p]
MCUrls == {Url("https", api, "/v1/a"), Url("https", api, "/b"), Url("https", api, "/v1/../b"),
           Url("ftp", sub, "/b"), Url("http", sub, "/b"), Url("http", lit, "/b"), Url("http", meta, "/b"),
           Url("https", other, "/v1/a")}

MCRules ==
  {[host |-> api, suffix |-> None, methods |-> {"POST"}, prefix |-> v1],
   [host |-> None, suffix |-> corp, methods |-> {"GET", "POST"}, prefix |-> None],
   [host |-> lit, suffix |-> None, methods |-> {"GET"}, prefix |-> None],
   [host |-> meta, suffix |-> None, methods |-> {"GET"}, prefix |-> None]}
MCUnder == corp :> {sub}
MCWithin == v1 :> {"/v1/a", "/v1/../b"}
MCNormalized == {"/v1/a", "/b"}

MCAddrs == {pub, priv, excepted, forbidden, mapped, zero}
MCLiteral == api :> None @@ sub :> None @@ other :> None @@ lit :> excepted @@ meta :> priv
MCZone == {{}, {pub}, {pub, excepted}, {pub, priv}, {forbidden}, {mapped}, {zero}}
MCUnmap == [a \in MCAddrs |-> IF a = mapped THEN priv ELSE a]
MCUnspecified == {zero}
MCExplicit == {forbidden}
MCAllowed == {excepted, forbidden, zero}
MCDefaultBlocked == {priv, excepted, zero}

Symmetry == Permutations(MCCalls)
=============================================================================
