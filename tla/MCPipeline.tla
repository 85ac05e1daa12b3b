----------------------------- MODULE MCPipeline -----------------------------
(* An instance of Pipeline for TLC. *)
EXTENDS Pipeline, TLC

Tags == SupportedLangs \cup {"", "vi-VN", "fr"}

PrefixOf == [tag \in Tags |-> IF tag = "vi-VN" THEN "vi" ELSE tag]

(* ?lang= before X-Lang; the first of Accept-Language, which is not supported. *)
TwoWants ==
    {[query |-> "vi-VN", header |-> "fr", accept |-> <<>>],
     [query |-> "", header |-> "", accept |-> <<"fr", "vi">>]}

(* A key both languages have, one that is empty in Vietnamese, and one that a
   later file overwrites; every other message is missing from the files. *)
Keys == {"common.unauthorized", "common.internal_error", "common.too_many_requests"}

TheFiles ==
    <<[lang |-> "en", texts |-> [k \in Keys |-> "en"]],
      [lang |-> "vi", texts |-> [k \in Keys |-> IF k = "common.internal_error" THEN "" ELSE "vi"]],
      [lang |-> "vi", texts |-> "common.unauthorized" :> "vi2"]>>
=============================================================================
