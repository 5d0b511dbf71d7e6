------------------------------ MODULE MCAddons ------------------------------
(***************************************************************************)
(* Two add-ons, one that declares a generation, owns data and has a second *)
(* version for the next generation, and one that predates the contract and *)
(* gives up its attachment in an update, on two releases of the core, of   *)
(* which the second adds to the seams.                                     *)
(***************************************************************************)
EXTENDS Addons, TLC

CONSTANTS Chat, Rag,      \* the add-ons
          Web, Proxy      \* the services

MCNames == {Chat, Rag}
MCServices == {Web, Proxy}

Core(version, window, services) ==
  [platform_version |-> {Release(version)}, addon_api |-> window, services |-> {services}]
Served(low, high) == {[min |-> low, current |-> high]}
MCCores == {Core(<<1, 0, 0>>, Served(1, 1), {Web}),
            Core(<<1, 1, 0>>, Served(1, 2), {Web, Proxy})}

Manifest(generations, range, attach) ==
  [malformed |-> FALSE, addon_api |-> generations, papaia_compat |-> range, attach |-> attach]

MCManifests ==
  (Chat :> {{Manifest({{1}}, {}, {Web})}, {Manifest({{2}}, {}, {Proxy})}}) @@
  (Rag :> {{Manifest({}, {Tilde(Release(<<1, 1, 0>>))}, {Web})},
           {Manifest({}, {Tilde(Release(<<1, 1, 0>>))}, {})}})
=============================================================================
