--------------------- MODULE ExamProvisioningInvariant ---------------------
(***************************************************************************)
(* Why a Ready Exam has its Deployments: the inductive invariant behind    *)
(* ReadyDeployed, for one manager and at most one spare.                   *)
(***************************************************************************)
EXTENDS ExamProvisioning

\* The slugs of the Deployments of a list that carry an instance's label.
Of(ds, i) == SlugsOf({d \in ds : d.student = LabelOf(i)})

Full(ds)   == \A i \in Instances : Of(ds, i) # {}
Single(ds) == \A d, e \in ds : d.student = e.student => d = e

\* A list has a Deployment for every instance, or no two for the same one:
\* a second one is only ever created once the loops went round.
Even(ds) ==
  /\ IsFiniteSet(ds)
  /\ \A d \in ds : \E i \in Instances : d.student = LabelOf(i)
  /\ Full(ds) \/ Single(ds)

\* Has the reconcile in flight been at an instance.
Visited(w, i) == pc[w] = "health" \/ (pc[w] = "instances" /\ i < next[w])
Ahead(w, i)   == pc[w] = "instances" /\ next[w] <= i

\* While an instance has no Deployment yet, no status has a slug, nothing was
\* deleted and the manager has listed what earlier reconciles created.
FirstRound(w) ==
  /\ status.slug = NewStatus.slug
  /\ \A i \in Instances :
       /\ Of(seen[w], i) \subseteq Of(deps, i)
       /\ Of(deps, i) # {} => Of(seen[w], i) # {} \/ Visited(w, i)

\* What the copies know of an instance.  A cached slug is the stored one, and a
\* slug the reconcile has not got to yet comes from the cache.  One it has been at
\* has its Deployment.  Where the cache has no slug, a Deployment that is listed
\* at all is listed with all its rivals, and the reconcile chose from these.
KnownInv(w, i) ==
  /\ cache[w].slug[i] # NoSlug => status.slug[i] = cache[w].slug[i]
  /\ Ahead(w, i) /\ loc[w].slug[i] # NoSlug => cache[w].slug[i] = loc[w].slug[i]
  /\ Visited(w, i) => loc[w].slug[i] \in Of(deps, i)
  /\ cache[w].slug[i] = NoSlug /\ Of(seen[w], i) # {}
       => /\ Of(deps, i) \subseteq Of(seen[w], i)
          /\ Visited(w, i) => loc[w].slug[i] \in Of(seen[w], i)

\* Once the Exam is Ready, a reconcile that does not know it can find only the
\* stored slugs: in its copy, or as the only Deployment of the instance.
StoredReadyInv(w, i) ==
  /\ status.slug[i] \in Of(deps, i)
  /\ Visited(w, i) => loc[w].slug[i] = status.slug[i]
  /\ cache[w].slug[i] = NoSlug \/ (Ahead(w, i) /\ loc[w].slug[i] = NoSlug)
       => Of(seen[w], i) = {status.slug[i]} /\ Of(deps, i) = {status.slug[i]}

ClusterInv ==
  /\ ns # "terminating"
  /\ status.phase = "Ready" => ns = "active"
  /\ Even(deps)

WorkerInv(w) ==
  /\ pc[w] # "idle" => ns = "active"
  /\ pc[w] = "idle" => next[w] = 1
  /\ pc[w] = "health" => next[w] \notin Instances
  /\ loc[w].phase # "Ready"
  /\ fresh[w] => synced[w] /\ status.phase # "Ready"
  /\ Even(seen[w])
  /\ ~Full(deps) => FirstRound(w)
  /\ \A i \in Instances : KnownInv(w, i)
  /\ status.phase = "Ready" => \A i \in Instances : StoredReadyInv(w, i)

\* No call has failed and there was no predecessor.
Clean == faults = 0 /\ ~recreated

\* The inductive invariant behind ReadyDeployed, where at most one manager runs:
\* whatever the two caches lag behind and wherever reconcileProvisioning was cut
\* off, the slugs it will find are those of Deployments that stay.
ReadyInv == Clean => ClusterInv /\ \A w \in Workers : WorkerInv(w)
=============================================================================
