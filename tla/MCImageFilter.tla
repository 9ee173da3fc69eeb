--------------------------- MODULE MCImageFilter ---------------------------
(***************************************************************************)
(* A tree of four images with a chain of three in it:                      *)
(*     base <- openstack <- nova,   base <- redis                          *)
(***************************************************************************)
EXTENDS ImageFilter

CONSTANTS base, openstack, nova, redis

MCImages == {base, openstack, nova, redis}

MCParent == [i \in MCImages |->
                CASE i = base      -> NoImage
                  [] i = openstack -> base
                  [] i = nova      -> openstack
                  [] i = redis     -> base]
=============================================================================
