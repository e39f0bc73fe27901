------------------------------ MODULE OpenApi ------------------------------
(***************************************************************************)
(* Reading an OpenAPI document (lib/openapi/parse.ts, operations.ts): pure. *)
(* A document is what the checks tell apart: the first check it fails, its  *)
(* operations, and the servers each may use.                                *)
(***************************************************************************)

CONSTANT Ops

(* The first check that refuses the text, in the order of parseOpenApiSpec. *)
Flaw == {"too_large", "invalid_syntax", "not_openapi", "unsupported_version",
         "validation_failed"}

(* A server: none is given; one without a usable absolute URL (no URL, a    *)
(* variable without a default, a relative path); one syncSafetyCheck        *)
(* refuses; one it accepts.                                                 *)
Server == {"absent", "unusable", "unsafe", "safe"}
Levels == {"operation", "path", "root"}

Document ==
  [flaw: Flaw \cup {"none"}, operations: SUBSET Ops,
   servers: [Ops -> [Levels -> Server]]]

(* The first server of the innermost level that gives one, usable or not.   *)
EffectiveServer(doc, o) ==
  LET at(level) == doc.servers[o][level]
  IN  IF at("operation") # "absent" THEN at("operation")
      ELSE IF at("path") # "absent" THEN at("path") ELSE at("root")

(* "unset" is effectiveServerUrl = null, "ready" is publishable; public are *)
(* the operations whose server resolves to public addresses by now.         *)
Status(doc, o, public) ==
  CASE EffectiveServer(doc, o) \in {"absent", "unusable"}          -> "unset"
    [] EffectiveServer(doc, o) = "safe" /\ o \in public            -> "ready"
    [] OTHER                                                       -> "blocked"

DiscoverOperations(doc, public) ==
  [o \in doc.operations |-> Status(doc, o, public)]
=============================================================================
