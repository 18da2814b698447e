----------------------------- MODULE MCPageJoin -----------------------------
(***************************************************************************)
(* PageJoin for TLC: pages in order and out of order, with a vehicle twice *)
(* or without kenteken, and plates with every kind of volgnummers.         *)
(***************************************************************************)
EXTENDS PageJoin

MCVehiclePages ==
    {<<>>, <<1>>, <<1, 2, 3, 4, 5>>, <<1, 3>>, <<2, 1>>, <<1, 2, 2>>, <<1, NoPlate>>,
     <<NoPlate>>}

MCVolgnummerLists == {<<>>, <<1, 2>>, <<1, 2, 3>>}

MCStrays == {Row(2, 1), Row(2, 2), Row(NoPlate, 1), Row(1, NoVolgnummer)}

============================================================================
