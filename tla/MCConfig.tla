------------------------------ MODULE MCConfig ------------------------------
(* The hooks that read the rootfs alone, as readlink does, and those that go  *)
(* on to the binds, as every hook with a path does.  ROOT_ID is read alone,   *)
(* as the rootfs is, by getuid and its like.                                  *)
EXTENDS Config

MCNeeds == {<<"ROOTFS_BYTES">>, <<"ROOTFS_BYTES", "BINDS">>}
=============================================================================
