---------------------------- MODULE MCHttpClient ----------------------------
(* Model-checking instance of HttpClient: two concurrent callers, two      *)
(* calls each, two logins.                                                 *)
EXTENDS HttpClient, TLC

(* Pages with and without a /dashboard/{tenant_id} path.                  *)
MCAnyPage == BOOLEAN

(* The pages of src/website/app: /, /auth, /dashboard, /workspace/[slug],  *)
(* /settings/profile, /admin/...; none has a /dashboard/{tenant_id} path.  *)
MCAppPages == {FALSE}

MCSymmetry == Permutations(Req)
=============================================================================
