----------------------------- MODULE Parameters -----------------------------
(***************************************************************************)
(* The parameters of the simulation and its scenarios:                     *)
(* services/simulation/app/config/parameters.py and scenario_configs.py.   *)
(*                                                                         *)
(* A parameter has a default and, but for three, a range. Values are in    *)
(* thousandths of the code's unit, so that all of them are integers; the   *)
(* two that are text or a distribution are 0. The models read parameters   *)
(* by name, some of them for a scope (a port, an equipment type).          *)
(***************************************************************************)
EXTENDS Integers, TLC

P(default, low, high) == [default |-> default, low |-> low, high |-> high]

\* A parameter without a range.
Free(default) == [default |-> default]

Globals ==
    [RANDOM_SEED |-> Free(42000),
     WORLD_ID |-> Free(0),
     SIMULATION_MAX_DELTA_HOURS |-> P(24000, 0, 24000),
     FORECAST_HORIZON_DAYS |-> P(90000, 14000, 365000)]

VesselParameters ==
    [VESSEL_BASE_SPEED_KNOTS |-> P(18000, 5000, 30000),
     VESSEL_SPEED_VARIATION |-> P(1500, 0, 5000),
     VESSEL_TURNAROUND_TIME_HOURS |-> P(12000, 2000, 72000),
     VESSEL_DELAY_PROBABILITY |-> P(150, 0, 1000),
     VESSEL_MEAN_TIME_BETWEEN_FAILURES |-> P(720000, 24000, 8760000),
     VESSEL_RECOVERY_TIME_HOURS |-> P(48000, 4000, 720000),
     WEATHER_SPEED_FACTOR |-> P(1000, 100, 1000),
     WEATHER_DELAY_PROBABILITY |-> P(100, 0, 1000)]

PortParameters ==
    [PORT_BERTH_COUNT |-> P(4000, 1000, 50000),
     PORT_CRANE_COUNT |-> P(6000, 1000, 30000),
     PORT_YARD_CAPACITY |-> P(10000000, 100000, 200000000),
     PORT_LOADING_RATE |-> P(25000, 1000, 100000),
     PORT_DISCHARGE_RATE |-> P(25000, 1000, 100000),
     PORT_BASE_HANDLING_TIME |-> P(40, 10, 1000),
     PORT_CONGESTION_THRESHOLD |-> P(800, 300, 1000),
     PORT_CONGESTION_FACTOR |-> P(2000, 100, 10000),
     PORT_CONGESTION_EXPONENT |-> P(2000, 1000, 5000)]

ContainerParameters ==
    [CONTAINER_DAMAGE_PROBABILITY |-> P(2, 0, 100),
     CONTAINER_DAMAGE_SEVERITY |-> P(100, 0, 1000),
     CONTAINER_REPAIR_TIME |-> P(3000, 500, 30000),
     CONTAINER_MAINTENANCE_PROBABILITY |-> P(5, 0, 100),
     CONTAINER_MAINTENANCE_TIME |-> P(2000, 500, 14000)]

DemandParameters ==
    [DEMAND_BASE_RATE |-> P(5000, 0, 1000000),
     DEMAND_GROWTH_RATE |-> P(0, -500, 500),
     DEMAND_SEASONAL_FACTOR |-> P(1000, 100, 3000),
     DEMAND_VARIANCE |-> P(1000, 0, 5000),
     DEMAND_SPIKE_PROBABILITY |-> P(50, 0, 1000),
     DEMAND_SPIKE_FACTOR |-> P(1350, 1000, 5000),
     DEMAND_GENERATION_INTERVAL |-> P(24000, 1000, 168000)]

BookingParameters ==
    [BOOKING_CANCELLATION_PROBABILITY |-> P(50, 0, 500),
     BOOKING_MODIFICATION_PROBABILITY |-> P(80, 0, 500),
     BOOKING_LEAD_TIME |-> P(21000, 1000, 90000),
     BOOKING_SIZE_DISTRIBUTION |-> Free(0)]

ReturnParameters ==
    [IMPORT_RETURN_MEAN_DAYS |-> P(5000, 1000, 60000),
     IMPORT_RETURN_VARIANCE |-> P(2000, 0, 25000),
     IMPORT_RETURN_MIN_DAYS |-> P(1000, 500, 7000),
     IMPORT_RETURN_MAX_DAYS |-> P(21000, 7000, 90000),
     IMPORT_RETURN_DELAY_PROBABILITY |-> P(50, 0, 500),
     IMPORT_RETURN_DELAY_DAYS |-> P(5000, 1000, 30000)]

EquipmentParameters ==
    [EQUIPMENT_SHORTAGE_THRESHOLD |-> P(0, 0, 1000000),
     EQUIPMENT_AVAILABILITY_FACTOR |-> P(950, 100, 1000)]

LeaseParameters ==
    [LEASE_COST_PER_DAY |-> P(8000, 500, 100000),
     LEASE_MIN_DURATION |-> P(14000, 1000, 90000),
     LEASE_MAX_DURATION |-> P(180000, 30000, 365000),
     LEASE_AVAILABLE_CAPACITY |-> P(200000, 0, 5000000),
     LEASE_START_DELAY |-> P(3000, 500, 21000),
     LEASE_COST_VARIATION |-> P(1000, 0, 20000)]

RepositioningParameters ==
    [REPOSITIONING_TRANSIT_TIME |-> P(7000, 1000, 60000),
     REPOSITIONING_HANDLING_TIME |-> P(500, 100, 4000),
     REPOSITIONING_COST |-> P(500000, 0, 5000000),
     REPOSITIONING_CAPACITY |-> P(50000, 0, 500000)]

DisruptionParameters ==
    [STORM_OCCURRENCE_PROBABILITY |-> P(50, 0, 1000),
     STORM_DURATION_HOURS |-> P(36000, 6000, 168000),
     STORM_SEVERITY |-> P(500, 0, 1000),
     STORM_SPEED_FACTOR |-> P(600, 0, 1000),
     STORM_DELAY_FACTOR |-> P(1500, 1000, 5000),
     PORT_STRIKE_PROBABILITY |-> P(10, 0, 500),
     PORT_STRIKE_DURATION |-> P(48000, 2000, 336000),
     PORT_STRIKE_CAPACITY_FACTOR |-> P(100, 0, 500)]

FailureParameters ==
    [FAILURE_PROBABILITY |-> P(10, 0, 1000),
     FAILURE_SEVERITY |-> P(100, 0, 1000),
     FAILURE_RECOVERY_TIME |-> P(24000, 1000, 720000)]

RecoveryParameters ==
    [RECOVERY_TIME_MEAN |-> P(24000, 1000, 720000),
     RECOVERY_TIME_VARIANCE |-> P(6000, 0, 100000),
     RECOVERY_SUCCESS_PROBABILITY |-> P(950, 500, 1000)]

BacklogParameters ==
    [BACKLOG_PROCESSING_RATE |-> P(50000, 1000, 1000000),
     BACKLOG_DELAY_FACTOR |-> P(10, 0, 1000),
     BACKLOG_CONGESTION_FACTOR |-> P(500, 0, 5000)]

ForecastParameters ==
    [FORECAST_HORIZON |-> P(28000, 7000, 90000),
     FORECAST_UPDATE_INTERVAL |-> P(24000, 1000, 168000),
     FORECAST_NOISE |-> P(150, 0, 1000),
     FORECAST_HISTORY_WINDOW |-> P(14000, 7000, 84000)]

VisibilityParameters ==
    [EVENT_INFORMATION_DELAY |-> P(500, 0, 24000),
     EVENT_INGESTION_DELAY |-> P(100, 0, 12000),
     VESSEL_POSITION_UPDATE_INTERVAL |-> P(6000, 500, 24000),
     PORT_STATUS_UPDATE_INTERVAL |-> P(4000, 500, 24000)]

TimelineParameters ==
    [EMPTY_RELEASE_LEAD_TIME |-> P(5000, 1000, 21000),
     BOOKING_CUTOFF_LEAD_TIME |-> P(7000, 1000, 21000),
     GATE_CUTOFF_LEAD_TIME |-> P(1000, 500, 5000),
     SI_CUTOFF_LEAD_TIME |-> P(2000, 500, 7000),
     VGM_CUTOFF_LEAD_TIME |-> P(1500, 500, 5000)]

CostParameters ==
    [VESSEL_DELAY_COST_PER_HOUR |-> P(5000000, 0, 100000000),
     PORT_HANDLING_COST |-> P(100000, 0, 2000000),
     STORAGE_COST_PER_DAY |-> P(5000, 0, 100000),
     SHORTAGE_COST_PER_CONTAINER |-> P(1000000, 0, 50000000),
     DISRUPTION_COST |-> P(50000000, 0, 1000000000),
     RECOVERY_COST |-> P(10000000, 0, 500000000)]

-----------------------------------------------------------------------------

\* ParameterRegistry._register_all()
Table ==
    Globals @@ VesselParameters @@ PortParameters @@ ContainerParameters
    @@ DemandParameters @@ BookingParameters @@ ReturnParameters
    @@ EquipmentParameters @@ LeaseParameters @@ RepositioningParameters
    @@ DisruptionParameters @@ FailureParameters @@ RecoveryParameters
    @@ BacklogParameters @@ ForecastParameters @@ VisibilityParameters
    @@ TimelineParameters @@ CostParameters

Names == DOMAIN Table

\* The parameter overrides of each scenario.
Scenarios ==
    [NORMAL |-> <<>>,
     PORT_CONGESTION |->
        [PORT_CONGESTION_THRESHOLD |-> 650, PORT_CONGESTION_FACTOR |-> 2500],
     VESSEL_DELAY |->
        [VESSEL_DELAY_PROBABILITY |-> 450,
         VESSEL_MEAN_TIME_BETWEEN_FAILURES |-> 120000],
     STORM |->
        [STORM_SEVERITY |-> 700, STORM_SPEED_FACTOR |-> 450,
         STORM_DELAY_FACTOR |-> 1800],
     EQUIPMENT_SHORTAGE |->
        [EQUIPMENT_SHORTAGE_THRESHOLD |-> 300,
         EQUIPMENT_AVAILABILITY_FACTOR |-> 400],
     DEMAND_SPIKE |->
        [DEMAND_SPIKE_FACTOR |-> 1350, DEMAND_SPIKE_PROBABILITY |-> 1000],
     MULTIPLE_DISRUPTIONS |->
        [STORM_SEVERITY |-> 650, PORT_CONGESTION_THRESHOLD |-> 600,
         EQUIPMENT_AVAILABILITY_FACTOR |-> 500]]

=============================================================================
