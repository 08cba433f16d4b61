---------------------------- MODULE MCBcpClient ----------------------------
(* The three programs; the distances straddle the zone. Command lines and    *)
(* files with duplicates, symbols to escape, and a server that is no address.*)
EXTENDS ClientStart

MCArguments == {<<>>, <<<<115, 61, 49>>>>, <<<<115, 61, 49>>, <<115, 61, 58, 61>>>>,
                <<<<107>>, <<115, 61, 49, 58, 50>>>>}
MCPairs == [name : {<<115>>, <<107, 35>>},
            value : {<<49, 58, 50>>, <<35, 39>>, <<92, 32, 92, 35>>, <<34, 92, 39>>, <<37, 35>>}]
MCWritten == {<<>>} \union [1..1 -> MCPairs] \union [1..2 -> MCPairs]
=============================================================================
