---------------------------- MODULE MCInstaller ----------------------------
(***************************************************************************)
(* A new node, a node with the configuration of another network plugin and *)
(* a directory, and a node with an older version.                          *)
(***************************************************************************)
EXTENDS Installer, TLC

Entries == {"05-cilium", "10-other", "cache"}

Dir(conf, other, cache) == ("05-cilium" :> conf) @@ ("10-other" :> other) @@ ("cache" :> cache)

Directories == { Dir("absent", "absent", "absent"),
                 Dir("absent", "old", "dir"),
                 Dir("old", "absent", "dir") }
=============================================================================
