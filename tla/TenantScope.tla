----------------------------- MODULE TenantScope -----------------------------
(***************************************************************************)
(* The Prisma extension behind `prisma.db` (tenant-scoping): how it        *)
(* rewrites one query in the tenant context of the request that makes it.  *)
(* A query's filter is the set of rows it matches, and owner maps them to  *)
(* their organisations.  A context is a record with the fields store (the  *)
(* middleware has entered one), bypass, org and enforce.                   *)
(***************************************************************************)
CONSTANT NoOrg   \* no orgId in the store

TENANT_KEY == {"Org", "Membership", "Profile", "Job", "Subscription", "GenerationLog",
               "QuotaPeriod", "UserMemory", "MemoryAuditLog"}

WHERE_OPS == {"findFirst", "findFirstOrThrow", "findMany", "count", "aggregate", "groupBy",
              "updateMany", "deleteMany"}

\* The store that the middleware enters and TenantGuard fills from the JWT.
RequestContext(org, enforce) ==
  [store |-> TRUE, bypass |-> FALSE, org |-> org, enforce |-> enforce]

\* The extension has something to say about the query.
Scopes(ctx, model) == model \in TENANT_KEY /\ ctx.store /\ ~ctx.bypass

\* A tenant model is queried in a request without an organisation: the query throws.
FailsClosed(ctx, model) == Scopes(ctx, model) /\ ctx.org = NoOrg /\ ctx.enforce

\* The query is rewritten, and not only logged.
Enforced(ctx, model) == Scopes(ctx, model) /\ ctx.org # NoOrg /\ ctx.enforce

\* The rows that the query reaches, of those its own filter matches.
Scoped(ctx, model, operation, rows, owner) ==
  IF FailsClosed(ctx, model) THEN {}
  ELSE IF Enforced(ctx, model) /\ operation \in WHERE_OPS
       THEN {row \in rows : owner[row] = ctx.org}
       ELSE rows

\* The organisation that a row inserted by the query gets, asked for org.
Inserted(ctx, model, operation, org) ==
  IF Enforced(ctx, model) /\ operation \in {"create", "createMany", "upsert"}
  THEN ctx.org
  ELSE org
==============================================================================
