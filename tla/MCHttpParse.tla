------------------------------ MODULE MCHttpParse ------------------------------
(* Every request of up to two headers, stray CRs and LFs among them, and of a *)
(* body that is empty, short or has a line break, cut into pieces everywhere. *)
EXTENDS HttpParse

Bodies == {<<>>, <<"byte">>, <<"byte", "byte">>, <<"byte", "CR", "LF">>}
AllRequests ==
    {r \in [line : Line, headers : BoundedSeq(Header \cup Stray, 2), body : Bodies] :
        r.body # <<>> => Contains(r.headers, "length")}
================================================================================
