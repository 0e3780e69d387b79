SPECIFICATION FairSpec
CONSTANTS
    LowestFloor = 1
    HighestFloor = 5
    StartFloor = 3
    TimePerFloor = 2
    DoorDwell = 3
    MaxLandingCalls = 3
    MaxLag = 3
    Controls <- MCControls
INVARIANTS InShaft HeadsForOldestCall DoorInterlock OneCallPerButton
PROPERTIES ArrivalOrderKept StopsOnTheWay
           SubscribersFollowTheCar CallsAnsweredAtTheirLanding EveryCallAnsweredIfLeftAlone
