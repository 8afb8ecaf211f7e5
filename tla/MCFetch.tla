---------------------------------- MODULE MCFetch ----------------------------------
(* One site that several sources share, two query profiles, two links. *)
EXTENDS Fetch
====
