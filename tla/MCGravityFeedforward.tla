------------------------ MODULE MCGravityFeedforward ------------------------
\* Two joints, one with an integral and one without; messages in either joint
\* order, of one joint only, with no velocities and with no points.
EXTENDS GravityFeedforward

Message(names, points) == [joint_names |-> names, points |-> points]
Point(positions, velocities) == [positions |-> positions, velocities |-> velocities]

MCJoints == <<"a", "b">>
MCChains == {MCJoints, <<"b", "a">>, <<>>}
MCMessages ==
  { Message(<<"b", "a">>, <<Point(<<0, 1>>, <<1, 0>>)>>),
    Message(<<"b", "c">>, <<Point(<<1>>, <<>>)>>),
    Message(<<"a">>, <<Point(<<0>>, <<>>)>>),
    Message(<<"a", "b">>, <<>>) }
MCPositions == {0, 1}
MCVelocities == {0, 1}
MCPGain == [a |-> 3, b |-> 2]
MCDGain == [a |-> 1, b |-> 1]
MCIGain == [a |-> 1, b |-> 0]
MCIClamp == [a |-> 2, b |-> 2]
MCBias == [a |-> 20, b |-> -10]
=============================================================================
