------------------------------ MODULE MCKvScrape ------------------------------
(* KvScrape on the small instance of MCKvServer. *)
EXTENDS KvScrape, MCKvServer

===============================================================================
