---------------------------- MODULE MCOidcCache ----------------------------
(* Two hosts, of which the first has two tenants.                          *)
EXTENDS OidcCache, TLC

CONSTANTS ms, google, t1, t2, g

Order == <<ms, google>>
Settings == {[enabled |-> e, issuer |-> (ms :> i @@ google :> g)] :
                e \in SUBSET {ms, google} \ {{}}, i \in {t1, t2}}
=============================================================================
