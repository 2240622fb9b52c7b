SPECIFICATION FairSpec
PROPERTIES
    RunsSettle
    DeliverySettles
    
CHECK_DEADLOCK FALSE
