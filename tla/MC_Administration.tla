------------------------- MODULE MC_Administration -------------------------
(* A small instance of Administration for TLC. *)
EXTENDS Administration, TLC

CONSTANTS ShopCert, MailCert, ShopHost, MailHost, Apex, Www

\* The first certificate loses the second host with its second version, and the
\* second certificate, at first a wildcard alone, gains it with its own.
Moving == ShopCert :> <<{ShopHost, MailHost}, {ShopHost}>> @@ MailCert :> <<{}, {MailHost}>>

\* Two names of one registered domain.
OneDomain == Apex :> "domain" @@ Www :> "domain"
WithOrWithout == {{"domain"}, {}}
=============================================================================
