----------------------------- MODULE MCWebhook -----------------------------
(* Instances of Webhook for TLC. *)
EXTENDS Webhook, TLC

CONSTANTS d1, d2, p1, p2, p3

Two == {d1, d2}
Nobody == {}
MCPods == {p1, p2, p3}
MCNamespaces == {"default", "kube-system"}
MCNsOf == [d \in Deployments |-> "default"]
MCPolicies == {"quarantine"}

\* Each template has the label of its ReplicaSet and that of its Deployment.
\* The first Deployment has two templates, of which one asks for the sidecar.
MCTemplates == {"web1", "web2", "db"}
MCTemplatesOf == [d \in Deployments |-> IF d = d1 THEN {"web1", "web2"} ELSE {"db"}]
MCLabelsOf ==
  [t \in MCTemplates |-> {t, IF t = "db" THEN "tier-db" ELSE "tier-web"}]
MCSelector == [d \in Deployments |-> IF d = d1 THEN {"tier-web"} ELSE {"tier-db"}]
MCIgnored == {"kube-system"}
MCAsking == {"web2"}
PodSymmetry == Permutations(MCPods)
=============================================================================
