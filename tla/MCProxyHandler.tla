-------------------------- MODULE MCProxyHandler ----------------------------
(* Hosts that redirect from the first to the second and on to the third, with *)
(* Locations of every form a redirect may have, for TLC.  "ww" is what the    *)
(* cuts leave of "http://www".                                                *)
EXTENDS ProxyHandler

To(h, forms) == [to : {h}, form : forms]

MCLocation ==
    [h \in Hosts |->
        CASE h = "example" -> To("www", {"slash", "noslash"})
          [] h = "www" -> To("secure", {"slash"}) \cup To("www", {"relative", "short"})
          [] OTHER -> {}]

MCOtherName ==
    [l \in Locations |->
        IF l = [to |-> "www", form |-> "noslash"] THEN "ww" ELSE NoHost]
=============================================================================
