------------------------------ MODULE Platform ------------------------------
(***************************************************************************)
(* The platform, from the environment variable ACTIVE_PLATFORM, which the  *)
(* server (get_cloud_env) and the download script (fetch_cost_info.py)     *)
(* read alike: EMR unless it says AWS_DBX.                                 *)
(***************************************************************************)

VARIABLE activated_platform

PlatformInit == activated_platform \in {"AWS_EMR", "AWS_DBX"}
=============================================================================
