------------------------------ MODULE MCAdmin ------------------------------
(* Values for the constants of Admin that a .cfg cannot write.              *)
EXTENDS Admin

Work(who, does, until, budget, found, purses) ==
    [who |-> who, does |-> does, until |-> until, budget |-> budget,
     role |-> found, balance |-> purses]

Knights == <<"knight", "knight">>
Mixed == <<"null", "knight">>
Plans ==
    {Work({"mod"}, "login", 4, 1, Knights, <<1, 0>>),
     Work({"mod"}, "draft", 2, 2, Knights, <<1, 0>>),
     Work({"dep"}, "roles", 1, 1, Mixed, <<1, 0>>),
     Work({"root", "dep"}, "roles", 0, 0, Mixed, <<1, 0>>),
     Work({"dep"}, "balance", 1, 1, Knights, <<1, 0>>),
     Work({"dep"}, "deltas", 2, 1, Knights, <<1, 0>>)}
=============================================================================
