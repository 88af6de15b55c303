------------------------------ MODULE KvShape -------------------------------
(* The shape a model's KV tensors have (shape.rs): policies, manifests and *)
(* pools are all checked against it.                                       *)
EXTENDS Naturals

ValidShape(s) ==
    /\ s.layers > 0 /\ s.heads > 0 /\ s.kv > 0 /\ s.dim > 0 /\ s.hidden > 0
    /\ s.attention = "MHA" => s.kv = s.heads
    /\ s.attention = "MQA" => s.kv = 1
    /\ s.attention = "GQA" => s.kv < s.heads
    /\ s.hidden % s.heads = 0
=============================================================================
